---- MODULE Spec2Model ----
(***************************************************************************)
(* Data profiling rules engine of the data-profiling-utility repository.   *)
(*                                                                         *)
(* The rule definitions (D4.x candidate keys, C5.x value distribution,     *)
(* C6.x quality grade, C11.x PII confidence) are translated from the       *)
(* pseudocode column of the rules table.  The orchestration of one         *)
(* profiling run (configuration check, parallel column workers, barrier,   *)
(* dataset-level rules, aggregation, cancellation) and the type            *)
(* inferencer have no code in the TypeScript tree and are modelled after   *)
(* the design document.  The results dashboard (Dashboard.tsx) and the     *)
(* configuration wizard (Configuration.tsx) are translated from the        *)
(* TypeScript pages.                                                       *)
(***************************************************************************)
EXTENDS Integers, Sequences, FiniteSets, TLC

VARIABLES
    df,               \* the TabularBatch: ordered sequence of [name, values]
    candidate_keys,   \* output of the Candidate Key Discoverer
    ckState,          \* state of the candidate-key rule group
    gcol,             \* a column as the grader sees it: rows, nulls, nunique
    quality_grade,    \* output of the Column Quality Grader
    regraded,         \* how the last graded column differs from the one before
    grade_before,     \* the grade of the column graded before
    pcol,             \* a column as the PII detector sees it
    confidence_score, \* output of the PII detector, a fraction num/den
    risk_level,       \* the bucket of the confidence score: Low, Medium, High
    cfg,              \* the RuleConfig of the run
    faults,           \* what raises in this input: column indices, rule groups
    phase,            \* created, columns, dataset, done or config_error
    colState,         \* per column: pending, running, completed or failed
    results,          \* per column: the ColumnProfile its worker produced
    finished,         \* the columns in the order their workers finished
    riState,          \* state of the referential-integrity rule group
    referential_integrity, \* output of the Referential Integrity Checker
    profile,          \* the DatasetProfile the run returned
    run,              \* first or second run over the same input
    prev,             \* the DatasetProfile the first run returned
    column,           \* the values of the column given to a column analyzer
    column_stats,     \* output of the Column Statistics Analyzer
    tcol,             \* the column given to the Type Inferencer, a cell by its kind
    tcfg,             \* the inferencer's configuration: threshold, sampling cap
    inferred_type,    \* output of the Type Inferencer
    dataset,          \* the Dataset of the results the dashboard shows
    entity,           \* the score and grade the dashboard shows for it
    page,             \* the entity view of the dataset as rendered
    cancelled,        \* the job-level cancellation signal of the run
    pairState,        \* per declared pair: pending, running, done, cancelled
    rev,              \* the revision of the configuration wizard in use
    step,             \* the wizard's step: 1, 2 or 3
    jobName,          \* the wizard's job name field
    uploadedFiles,    \* the wizard's uploaded-files list: file ids
    previewData,      \* whether the wizard holds preview data
    alertMsg,         \* the last alert the wizard showed
    route,            \* the route the browser is on
    sampleSize,       \* the wizard's sample size field: its characters
    control,          \* the control of the wizard the user used last
    file_ids,         \* how many file ids the backend's /upload has returned
    jobPosts,         \* the POST /jobs requests awaiting their response
    jobs,             \* the jobs the backend created, by job id
    jobId,            \* the job id in the dashboard's route
    job,              \* the dashboard's state job: the last answer to GET /jobs/{jobId}
    jobResults,       \* the dashboard's state results
    loading,          \* the dashboard's state loading
    error,            \* the dashboard's state error
    effect,           \* the dashboard's effect as it last ran: closure and interval
    requests,         \* the dashboard's requests awaiting their answer
    backend,          \* the status of each job at the backend
    navigations,      \* how often the route went to another job's dashboard
    observedEnd,      \* a completed or failed answer was seen for the route's job
    requestFailed     \* a request failed since the route came to this job

keyVars == <<df, candidate_keys, ckState>>

gradeVars == <<gcol, quality_grade, regraded, grade_before>>

piiVars == <<pcol, confidence_score, risk_level>>

runVars == <<cfg, faults, phase, colState, results, finished, riState,
             referential_integrity, profile, run, prev>>

colVars == <<column, column_stats>>

\* the state of the components that are modelled on their own
typeVars == <<tcol, tcfg, inferred_type>>

dashVars == <<dataset, entity, page>>

cancelVars == <<cancelled, pairState>>

\* the wizard's form and the backend's answers to it
formVars == <<rev, step, jobName, uploadedFiles, previewData, alertMsg,
              sampleSize, control, file_ids, jobPosts, jobs>>

wizVars == <<formVars, route, jobId>>

pageVars == <<job, jobResults, loading, error, effect, requests, backend,
              navigations, observedEnd, requestFailed>>

restVars == <<colVars, typeVars, dashVars, cancelVars, wizVars, pageVars>>

vars == <<keyVars, gradeVars, piiVars, runVars, restVars>>

-----------------------------------------------------------------------------
(* Bounds of the model *)

MaxRows == 3

\* row count of the graded columns: 1/GradeRows is the 1% null-rate cutoff
GradeRows == 100

\* largest row count of the columns given to the PII detector
MaxPIIRows == 10

\* largest number of columns of a dataset shown on the dashboard
MaxDatasetColumns == 2

\* largest number of files in the wizard's uploaded-files list
MaxFiles == 2

\* the POST /jobs requests that can await their response at one time
MaxPosts == 1

\* how often the route can go from one job's dashboard to another's
MaxNavigations == 1

\* largest configured worker count
MaxWorkers == 2

\* largest number of columns whose profiling raises in one input
MaxFaults == 1

\* N of the top-N and bottom-N lists (configurable, default 10)
TopN == 2

-----------------------------------------------------------------------------
(* Cell values.  A cell is null (NA/None/NaT) or a value. *)

Null == 0

Values == {1, 2, 3}

Cells == {Null} \cup Values

Min2(a, b) == IF a < b THEN a ELSE b

\* all batches with the given column names and n rows
BatchesOf(names, n) ==
    { [i \in 1..Len(names) |-> [name |-> names[i], values |-> v[i]]] :
        v \in [1..Len(names) -> [1..n -> Cells]] }

\* len(df)
Rows(d) == IF Len(d) = 0 THEN 0 ELSE Len(d[1].values)

ColIndex(d) == 1..Len(d)

-----------------------------------------------------------------------------
(* pandas primitives used by the rules *)

\* df[col].isnull().sum()
isnull_sum(col) == Cardinality({i \in 1..Len(col) : col[i] = Null})

\* df[col].nunique(dropna=...)
nunique(col, dropna) ==
    Cardinality({col[i] : i \in 1..Len(col)} \ (IF dropna THEN {Null} ELSE {}))

\* pair.isnull().any(axis=1).sum()
isnull_any_axis1_sum(c1, c2) ==
    Cardinality({i \in 1..Len(c1) : c1[i] = Null \/ c2[i] = Null})

\* pair.drop_duplicates().shape[0]  (a null cell is a value of the tuple)
drop_duplicates_count(c1, c2) ==
    Cardinality({<<c1[i], c2[i]>> : i \in 1..Len(c1)})

-----------------------------------------------------------------------------
(* D4 Candidate Key Detection *)

\* the null test dropped: nunique(dropna=False) alone
is_pk_single_nonullcheck(col) == nunique(col, FALSE) = Len(col)

\* D4.1: is_pk = (df[col].isnull().sum() == 0) and
\*               (df[col].nunique(dropna=False) == len(df))
is_pk_single(col) ==
    /\ isnull_sum(col) = 0
    /\ nunique(col, FALSE) = Len(col)

\* rows counted as null only when BOTH cells are null: all(axis=1)
is_pk_pair_allnull(c1, c2) ==
    /\ Cardinality({i \in 1..Len(c1) : c1[i] = Null /\ c2[i] = Null}) = 0
    /\ drop_duplicates_count(c1, c2) = Len(c1)

\* D4.2: pair = df[[c1,c2]];
\*       is_pk = (pair.isnull().any(axis=1).sum()==0) and
\*               (pair.drop_duplicates().shape[0] == len(df))
is_pk_pair(c1, c2) ==
    /\ isnull_any_axis1_sum(c1, c2) = 0
    /\ drop_duplicates_count(c1, c2) = Len(c1)

\* indices of the columns that qualify as single-column keys
QualifyingColumns(d) == {i \in ColIndex(d) : is_pk_single(d[i].values)}

\* every qualifying column recommended as the primary key
SingleRecommendationAlwaysPrimary(d, i) ==
    IF i \in QualifyingColumns(d) THEN "primary_key" ELSE "near_unique"

\* recommendation of a single column (design 4.7)
SingleRecommendation(d, i) ==
    IF i \in QualifyingColumns(d)
    THEN IF QualifyingColumns(d) = {i} THEN "primary_key" ELSE "candidate_key"
    ELSE "near_unique"

\* CandidateKey entry of column i
SingleKey(d, i) ==
    [ columns        |-> <<d[i].name>>,
      is_unique      |-> nunique(d[i].values, FALSE) = Rows(d),
      is_composite   |-> FALSE,
      has_nulls      |-> isnull_sum(d[i].values) > 0,
      recommendation |-> SingleRecommendation(d, i) ]

\* the column pairs, in schema order
Pairs(d) == {p \in ColIndex(d) \X ColIndex(d) : p[1] < p[2]}

\* CandidateKey entry of the pair (i, j)
PairKey(d, i, j) ==
    [ columns        |-> <<d[i].name, d[j].name>>,
      is_unique      |-> drop_duplicates_count(d[i].values, d[j].values) = Rows(d),
      is_composite   |-> TRUE,
      has_nulls      |-> isnull_any_axis1_sum(d[i].values, d[j].values) > 0,
      recommendation |-> IF is_pk_pair(d[i].values, d[j].values)
                         THEN "candidate_key" ELSE "near_unique" ]

\* CandidateKeys block of the profile
CandidateKeys(d) ==
    [ single_column_keys |-> {SingleKey(d, i) : i \in ColIndex(d)},
      composite_keys     |-> {PairKey(d, p[1], p[2]) : p \in Pairs(d)} ]

NoKeys == [single_column_keys |-> {}, composite_keys |-> {}]

-----------------------------------------------------------------------------
(* Fractions.  A ratio is num/den; den = 0 is NaN, which compares false. *)

Ratio(n, d) == [num |-> n, den |-> d]

\* r <= p/q and r >= p/q for a decimal literal p/q
RatioLe(r, p, q) == r.den > 0 /\ r.num * q <= p * r.den

RatioGe(r, p, q) == r.den > 0 /\ r.num * q >= p * r.den

-----------------------------------------------------------------------------
(* C6 Quality Grade *)

\* notnull() in place of isnull(): the share of non-null cells
null_rate_notnull(c) == Ratio(c.rows - c.nulls, c.rows)

\* C6.1: null_rate = df[col].isnull().mean()
null_rate(c) == Ratio(c.nulls, c.rows)

\* C6.2: distinctness = df[col].nunique(dropna=False) / len(df)
distinctness(c) == Ratio(c.nuniq, c.rows)

\* C6.3: Gold: null_rate<=0.01 and 0.05<=distinctness<=0.95;
\*       Silver: null_rate<=0.05 and 0.02<=distinctness<=0.98; else Bronze.
GradeAssignment(nr, ds) ==
    IF RatioLe(nr, 1, 100) /\ RatioGe(ds, 5, 100) /\ RatioLe(ds, 95, 100)
    THEN "Gold"
    ELSE IF RatioLe(nr, 5, 100) /\ RatioGe(ds, 2, 100) /\ RatioLe(ds, 98, 100)
         THEN "Silver"
         ELSE "Bronze"

\* the grade taken from the 0-100 quality score, as the dataset grade is
ColumnGradeByScore(c) ==
    IF c.quality_score >= 90 THEN "Gold"
    ELSE IF c.quality_score >= 70 THEN "Silver" ELSE "Bronze"

\* C6: grade = gold/silver/bronze based on C6.1-C6.3
ColumnGrade(c) == GradeAssignment(null_rate(c), distinctness(c))

\* values of quality_score, which the grade does not read
QualityScores == {0, 100}

GradeIdle ==
    /\ gcol = [rows |-> 0, nulls |-> 0, nuniq |-> 0, quality_score |-> 0]
    /\ quality_grade = "none"
    /\ regraded = "no"
    /\ grade_before = "none"

-----------------------------------------------------------------------------
(* C11 PII Detection: confidence score *)

NoScore == Ratio(0, 0)

\* C11: match_rate = ....str.contains(patterns, ...).mean()
match_rate(c) == Ratio(c.matches, c.rows)

\* C11.2: name_hint = 0.3 if any(k in col.lower() for k in keywords) else 0
name_hint(hinted) == IF hinted THEN Ratio(3, 10) ELSE Ratio(0, 10)

\* the weight of the match rate left out and no cap
ConfidenceScoreUnweighted(mr, hint) ==
    Ratio(mr.num * hint.den + hint.num * mr.den, mr.den * hint.den)

\* C11.3: score = min(1.0, 0.7*match_rate + name_hint)
ConfidenceScore(mr, hint) ==
    LET num == 7 * mr.num * hint.den + 10 * hint.num * mr.den
        den == 10 * mr.den * hint.den
    IN  IF num < den THEN Ratio(num, den) ELSE Ratio(den, den)

\* D5: col_score = 0.7*match_rate + 0.3*name_hint, name_hint being 1 when the
\* column name hints at PII ("strong name hint" alone exceeds 0.2) and else 0
col_score(mr, hinted) ==
    Ratio(7 * mr.num + 3 * mr.den * (IF hinted THEN 1 ELSE 0), 10 * mr.den)

\* the upper limit of Medium left out of the bucket
RiskLevelStrict(score) ==
    IF score.num * 10 < 2 * score.den THEN "Low"
    ELSE IF score.num * 10 < 5 * score.den THEN "Medium" ELSE "High"

\* D5.2: risk_level = 'Low' if score<0.2 else 'Medium' if score<=0.5 else 'High'
RiskLevel(score) ==
    IF score.num * 10 < 2 * score.den THEN "Low"
    ELSE IF RatioLe(score, 5, 10) THEN "Medium" ELSE "High"

PIIIdle ==
    /\ pcol = [rows |-> 0, matches |-> 0, hinted |-> FALSE]
    /\ confidence_score = NoScore
    /\ risk_level = "none"

KeysIdle ==
    /\ df = <<>>
    /\ candidate_keys = NoKeys
    /\ ckState = "idle"

-----------------------------------------------------------------------------
(* C5 Value Distribution *)

\* df[col].dropna(): the distinct non-null values
NonNullValues(col) == {col[i] : i \in 1..Len(col)} \ {Null}

CountOf(col, v) == Cardinality({i \in 1..Len(col) : col[i] = v})

FirstIndex(col, v) ==
    CHOOSE i \in 1..Len(col) : col[i] = v /\ \A j \in 1..(i - 1) : col[j] # v

\* v is listed before w: by count, equal counts in order of first occurrence
ListedBefore(col, v, w, ascending) ==
    IF CountOf(col, v) # CountOf(col, w)
    THEN IF ascending THEN CountOf(col, v) < CountOf(col, w)
                      ELSE CountOf(col, v) > CountOf(col, w)
    ELSE FirstIndex(col, v) < FirstIndex(col, w)

RECURSIVE SortedCounts(_, _, _)
SortedCounts(col, S, ascending) ==
    IF S = {} THEN <<>>
    ELSE LET v == CHOOSE x \in S :
                    \A w \in S \ {x} : ListedBefore(col, x, w, ascending)
         IN  <<[value |-> v, count |-> CountOf(col, v)]>>
                 \o SortedCounts(col, S \ {v}, ascending)

\* df[col].dropna().value_counts(ascending=...)
value_counts(col, ascending) == SortedCounts(col, NonNullValues(col), ascending)

\* .head(n)
head(s, n) == SubSeq(s, 1, Min2(n, Len(s)))

\* C5.1: top_n = df[col].dropna().value_counts().head(N)
top_n(col) == head(value_counts(col, FALSE), TopN)

\* C5.2: bottom_n = df[col].dropna().value_counts(ascending=True).head(N)
bottom_n(col) == head(value_counts(col, TRUE), TopN)

\* C5.7: histogram of 20 bins
HistogramBins == 20

\* the bin (1..20) of value v between lo and hi; a single-valued column is
\* binned over [lo - 0.5, hi + 0.5]
BinOf(v, lo, hi) ==
    IF hi = lo THEN (HistogramBins \div 2) + 1
    ELSE Min2(HistogramBins, ((v - lo) * HistogramBins) \div (hi - lo) + 1)

\* C5.7: hist = df[col].dropna().hist(bins=20); no histogram of an empty column
hist(col) ==
    LET S  == NonNullValues(col)
        lo == CHOOSE x \in S : \A y \in S : x <= y
        hi == CHOOSE x \in S : \A y \in S : x >= y
    IN  IF S = {} THEN <<>>
        ELSE [b \in 1..HistogramBins |->
                Cardinality({i \in 1..Len(col) :
                                col[i] # Null /\ BinOf(col[i], lo, hi) = b})]

-----------------------------------------------------------------------------
(* C2, C3 Column statistics *)

\* df[col].notnull().sum()
notnull_sum(col) == Cardinality({i \in 1..Len(col) : col[i] # Null})

\* C6.1: percent of nulls over total rows (nulls/len(df)),
\*       df[col].isnull().mean(); the mean of no rows is NaN
null_percentage(col) == Ratio(100 * isnull_sum(col), Len(col))

\* null counted as one more value: nunique(dropna=False)
distinct_count_withnull(col) == nunique(col, FALSE)

\* C3: distinct = df[col].nunique()
distinct_count(col) == nunique(col, TRUE)

\* values occurring exactly once (design 4.2)
unique_count(col) ==
    Cardinality({v \in NonNullValues(col) : CountOf(col, v) = 1})

\* the counts of one column
ColumnStatistics(col) ==
    [ total_count     |-> Len(col),
      null_count      |-> isnull_sum(col),
      non_null_count  |-> notnull_sum(col),
      null_percentage |-> null_percentage(col),
      unique_count    |-> unique_count(col),
      distinct_count  |-> distinct_count(col),
      duplicate_count |-> Len(col) - distinct_count(col) ]

NoStats == [total_count |-> -1]

ColumnIdle ==
    /\ column = <<>>
    /\ column_stats = NoStats

-----------------------------------------------------------------------------
(* C1, C7 Type inference (design 4.1) *)

NullCell == "null"

\* a cell by what it looks like: "true", "1", "42", "3.5", "2024-01-31", "abc"
CellKinds == {"flag", "bit", "whole", "decimal", "date", "text"}

\* the candidate types, in priority order
CandidateTypes == <<"boolean", "integer", "float", "datetime", "string">>

\* the candidate types a cell of the kind coerces to; every cell is a string
CoercesTo(kind) ==
    CASE kind = "flag"    -> {"boolean", "string"}
      [] kind = "bit"     -> {"boolean", "integer", "float", "string"}
      [] kind = "whole"   -> {"integer", "float", "string"}
      [] kind = "decimal" -> {"float", "string"}
      [] kind = "date"    -> {"datetime", "string"}
      [] kind = "text"    -> {"string"}

IsValue(cell) == cell # NullCell

\* the non-null sample: the first cap non-null cells
Sample(col, cap) == head(SelectSeq(col, IsValue), cap)

\* number of sampled cells that coerce to type t
Coerced(sample, t) ==
    Cardinality({i \in 1..Len(sample) : t \in CoercesTo(sample[i])})

\* more than the threshold is asked for: > in place of >=
ReachesThresholdStrict(sample, t, pct) ==
    100 * Coerced(sample, t) > pct * Len(sample)

\* at least pct percent of the sample coerce to t
ReachesThreshold(sample, t, pct) ==
    100 * Coerced(sample, t) >= pct * Len(sample)

RECURSIVE FirstCandidate(_, _, _)
\* the first candidate type from position k on that reaches the threshold
FirstCandidate(sample, pct, k) ==
    IF k >= Len(CandidateTypes) THEN "string"
    ELSE IF ReachesThreshold(sample, CandidateTypes[k], pct)
         THEN CandidateTypes[k]
         ELSE FirstCandidate(sample, pct, k + 1)

\* the inferred type of a column
infer_type(col, c) ==
    LET sample == Sample(col, c.sampling_cap)
    IN  IF Len(sample) = 0 THEN "Unknown"
        ELSE FirstCandidate(sample, c.threshold_pct, 1)

NoType == "none"

TypeIdle ==
    /\ tcol = <<>>
    /\ tcfg = [none |-> TRUE]
    /\ inferred_type = NoType

-----------------------------------------------------------------------------
(* D6 Referential Integrity *)

HasColumn(d, nm) == \E i \in ColIndex(d) : d[i].name = nm

\* the values of the column called nm
ColumnNamed(d, nm) == d[CHOOSE i \in ColIndex(d) : d[i].name = nm].values

\* D6: missing = child.dropna()[~child.isin(parent)].count();
\*     match_rate = 1 - missing/len(child.dropna())
ForeignKeyCheck(d, fk) ==
    IF ~HasColumn(d, fk.parent)
    THEN [child |-> fk.child, parent |-> fk.parent, status |-> "not_evaluated"]
    ELSE LET child   == ColumnNamed(d, fk.child)
             parent  == ColumnNamed(d, fk.parent)
             nonnull == {i \in 1..Len(child) : child[i] # Null}
             missing == Cardinality({i \in nonnull :
                            \A j \in 1..Len(parent) : parent[j] # child[i]})
         IN  [child |-> fk.child, parent |-> fk.parent, status |-> "evaluated",
              missing_count |-> missing,
              match_rate |-> Ratio(Cardinality(nonnull) - missing,
                                   Cardinality(nonnull))]

\* the pairs declared after a missing parent column are left unchecked
ReferentialIntegrityUntilMissing(d, fks) ==
    LET bad == {k \in 1..Len(fks) : ~HasColumn(d, fks[k].parent)}
        n   == IF bad = {} THEN Len(fks)
               ELSE CHOOSE k \in bad : \A m \in bad : k <= m
    IN  [k \in 1..n |-> ForeignKeyCheck(d, fks[k])]

\* D6: for each declared FK pair (child_col, parent_col)
ReferentialIntegrity(d, fks) == [k \in 1..Len(fks) |-> ForeignKeyCheck(d, fks[k])]

-----------------------------------------------------------------------------
(* One column's profile *)

\* the ColumnProfile a worker builds from one column alone
ColumnProfile(c) ==
    [ column_name     |-> c.name,
      status          |-> "completed",
      total_count     |-> Len(c.values),
      null_count      |-> isnull_sum(c.values),
      distinct_count  |-> nunique(c.values, TRUE),
      top_values      |-> top_n(c.values),
      bottom_values   |-> bottom_n(c.values),
      histogram_bins  |-> hist(c.values),
      quality_grade   |-> ColumnGrade([rows  |-> Len(c.values),
                                       nulls |-> isnull_sum(c.values),
                                       nuniq |-> nunique(c.values, FALSE)]) ]

\* the profile of a column whose profiling raised
FailedColumnProfile(c) == [column_name |-> c.name, status |-> "failed"]

NoResult == [status |-> "pending"]

-----------------------------------------------------------------------------
(* The profile document *)

RuleGroups == {"column_rules", "candidate_keys", "referential_integrity"}

Statuses == {"completed", "skipped", "failed"}

\* only the groups that ran are listed
RuleStatusOfRunOnly(cols, ckS, riS) ==
    [g \in {h \in {"candidate_keys", "referential_integrity"} :
                (IF h = "candidate_keys" THEN ckS ELSE riS) = "completed"}
            \cup {"column_rules"} |->
        "completed"]

\* the status of every rule group
RuleStatus(cols, ckS, riS) ==
    [g \in RuleGroups |->
        CASE g = "column_rules" ->
                 IF \E i \in 1..Len(cols) : cols[i].status = "failed"
                 THEN "failed" ELSE "completed"
          [] g = "candidate_keys" -> ckS
          [] g = "referential_integrity" -> riS]

\* the column profiles in the order the workers finished
AssembleInCompletionOrder(d, res, order) == [k \in 1..Len(order) |-> res[order[k]]]

\* the column profiles in schema order
AssembleColumns(d, res, order) == [i \in 1..Len(d) |-> res[i]]

\* the DatasetProfile; an optional block is present only when its rule completed
DatasetProfile(d, res, order, ckS, riS, ck, ri) ==
    LET cols == AssembleColumns(d, res, order) IN
    [ row_count    |-> Rows(d),
      column_count |-> Len(d),
      columns      |-> cols,
      rule_status  |-> RuleStatus(cols, ckS, riS) ]
    @@ (IF ckS = "completed" THEN [candidate_keys |-> ck] ELSE <<>>)
    @@ (IF riS = "completed" THEN [referential_integrity |-> ri] ELSE <<>>)

NoProfile == [returned |-> FALSE]

-----------------------------------------------------------------------------
(* The results dashboard: quality score and grade of a dataset *)

\* Math.round(sum / n) for sum >= 0
RoundedMean(sum, n) == (2 * sum + n) \div (2 * n)

RECURSIVE SumCompleteness(_)
\* columns.reduce((sum, col) => sum + (100 - col.null_percentage), 0)
SumCompleteness(cols) ==
    IF Len(cols) = 0 THEN 0
    ELSE (100 - cols[1].null_percentage) + SumCompleteness(Tail(cols))

\* Dashboard.tsx calculateQualityScore: the rounded average completeness
calculateQualityScore(d) ==
    IF Len(d.columns) = 0 THEN 0
    ELSE RoundedMean(SumCompleteness(d.columns), Len(d.columns))

\* Dashboard.tsx getQualityGrade
getQualityGrade(score) ==
    IF score >= 85 THEN "Gold"
    ELSE IF score >= 70 THEN "Silver" ELSE "Bronze"

HasQuality(d) == "dataset_quality" \in DOMAIN d

\* Math.round of a score given in tenths of a percent
MathRound(tenths) == (tenths + 5) \div 10

\* the other revision of the dashboard: calculateQualityScore(dataset), which
\* uses the backend's overall_quality_score when it is there and truthy
calculateQualityScoreOf(d) ==
    IF HasQuality(d) /\ d.dataset_quality.overall_quality_score # 0
    THEN MathRound(d.dataset_quality.overall_quality_score)
    ELSE calculateQualityScore(d)

\* the other revision of the dashboard: getQualityGrade(dataset)
getQualityGradeOf(d) ==
    IF HasQuality(d) THEN d.dataset_quality.quality_grade
    ELSE IF calculateQualityScoreOf(d) >= 90 THEN "Gold"
         ELSE IF calculateQualityScoreOf(d) >= 70 THEN "Silver" ELSE "Bronze"

\* avgPIIRisk of the results, which hold the one dataset d: the sum of the
\* pii_risk_score of the datasets that have one, by the number of datasets
avgPIIRisk(d) == IF HasQuality(d) THEN d.dataset_quality.pii_risk_score ELSE 0

\* the label of the PII Risk Score badge and of the entity view's colours
PIIRiskLabel(risk) ==
    IF risk > 50 THEN "High" ELSE IF risk > 20 THEN "Medium" ELSE "Low"

\* the text colour the pages give a risk label
RiskColour(label) ==
    IF label = "High" THEN "#c00"
    ELSE IF label = "Medium" THEN "#856404" ELSE "#155724"

\* the PII Risk Score badge of the dashboard: rendered when avgPIIRisk > 0
PIIRiskBadge(d) ==
    IF avgPIIRisk(d) > 0
    THEN [ shown  |-> TRUE,
           label  |-> PIIRiskLabel(avgPIIRisk(d)),
           colour |-> RiskColour(PIIRiskLabel(avgPIIRisk(d))) ]
    ELSE [ shown |-> FALSE, label |-> "none", colour |-> "none" ]

\* the dataset's row of both dashboards, and the PII badge
Entities(d) ==
    [ dashboard |-> [ score |-> calculateQualityScore(d),
                      grade |-> getQualityGrade(calculateQualityScore(d)) ],
      revision  |-> [ score |-> calculateQualityScoreOf(d),
                      grade |-> getQualityGradeOf(d) ],
      pii_risk  |-> PIIRiskBadge(d) ]

-----------------------------------------------------------------------------
(* The entity view *)

OptionalBlocks ==
    {"dataset_statistics", "dataset_quality", "referential_integrity",
     "candidate_keys"}

Tabs == {"overview", "columns", "quality", "patterns", "integrity", "keys", "pii"}

HasBlock(d, b) == b \in DOMAIN d

\* the tab that holds the section of a block
TabOf(b) ==
    IF b = "referential_integrity" THEN "integrity"
    ELSE IF b = "candidate_keys" THEN "keys" ELSE "overview"

\* the values the section of a block shows
FieldsOf(b) ==
    IF b = "dataset_statistics"
    THEN {"total_records", "total_columns", "dataset_size_bytes",
          "profiling_duration_seconds"}
    ELSE IF b = "dataset_quality"
    THEN {"overall_completeness", "overall_quality_score", "quality_grade",
          "pii_risk_score"}
    ELSE IF b = "referential_integrity"
    THEN {"orphan_records", "cross_table_consistency"}
    ELSE {"primary_key_suggestions", "single_column_keys", "composite_keys"}

NotEnabled == "rule not enabled"

\* what is on the page: the value of a field of a block, or the block's
\* "rule not enabled" message, and the place it is in
Item(place, b, field) == [place |-> place, block |-> b, field |-> field]

\* the section of block b: its values when the block is there, else the message
Section(d, b) ==
    IF HasBlock(d, b)
    THEN {Item(TabOf(b), b, f) : f \in FieldsOf(b)}
    ELSE {Item(TabOf(b), b, NotEnabled)}

\* the header: the QualityBadge and the quality score are always rendered,
\* the PII risk only with dataset_quality
Header(d) ==
    {Item("header", "dataset_quality", "quality_grade"),
     Item("header", "dataset_quality", "overall_quality_score")}
    \cup (IF HasQuality(d)
          THEN {Item("header", "dataset_quality", "pii_risk_score")}
          ELSE {})

\* the entity view of dataset d with tab `tab` active
EntityPage(d, tab) ==
    [ tab          |-> tab,
      \* dataset.dataset_quality?.quality_grade || 'Bronze'
      qualityGrade |-> IF HasQuality(d) THEN d.dataset_quality.quality_grade
                                        ELSE "Bronze",
      \* dataset.dataset_quality?.overall_quality_score || 0
      qualityScore |-> IF HasQuality(d)
                       THEN d.dataset_quality.overall_quality_score ELSE 0,
      piiColour    |-> IF HasQuality(d)
                       THEN RiskColour(PIIRiskLabel(d.dataset_quality.pii_risk_score))
                       ELSE "none",
      shown        |-> Header(d)
                       \cup UNION {Section(d, b) :
                                      b \in {c \in OptionalBlocks : TabOf(c) = tab}} ]

NoPage == [tab |-> "none"]

NoDataset == [columns |-> <<>>, dataset_name |-> "none"]

NoEntity == [shown |-> FALSE]

DashIdle ==
    /\ dataset = NoDataset
    /\ entity = NoEntity
    /\ page = NoPage

-----------------------------------------------------------------------------
(* The RuleConfig *)

\* the regex list is checked for the wrong thing: that it is a list
ValidConfigAnyList(c) == Len(c.pii_patterns) >= 0

\* a RuleConfig is malformed when its regex list is empty
ValidConfig(c) == Len(c.pii_patterns) > 0

RunIdle ==
    /\ cfg = [none |-> TRUE]
    /\ faults = [columns |-> {}, rules |-> {}]
    /\ phase = "idle"
    /\ colState = <<>>
    /\ results = <<>>
    /\ finished = <<>>
    /\ riState = "idle"
    /\ referential_integrity = <<>>
    /\ profile = NoProfile
    /\ run = "none"
    /\ prev = NoProfile

CancelIdle ==
    /\ cancelled = FALSE
    /\ pairState = <<>>

WizardIdle ==
    /\ rev = 0
    /\ step = 0
    /\ jobName = ""
    /\ uploadedFiles = <<>>
    /\ previewData = FALSE
    /\ alertMsg = "none"
    /\ route = "none"
    /\ sampleSize = <<>>
    /\ control = "none"
    /\ file_ids = 0
    /\ jobPosts = <<>>
    /\ jobs = <<>>
    /\ jobId = 0

NoJob == [job_id |-> 0, status |-> "none"]

NoResults == [job_id |-> 0]

PageIdle ==
    /\ job = NoJob
    /\ jobResults = NoResults
    /\ loading = FALSE
    /\ error = "none"
    /\ effect = [jobId |-> 0, status |-> "none", interval |-> FALSE]
    /\ requests = {}
    /\ backend = <<>>
    /\ navigations = 0
    /\ observedEnd = FALSE
    /\ requestFailed = FALSE

RestIdle ==
    ColumnIdle /\ TypeIdle /\ DashIdle /\ CancelIdle /\ WizardIdle /\ PageIdle

-----------------------------------------------------------------------------
(* The Candidate Key Discoverer applied to an arbitrary batch *)

KeyCols == <<"id", "ref">>

InitKeys ==
    /\ \E n \in 0..MaxRows : df \in BatchesOf(KeyCols, n)
    /\ candidate_keys = NoKeys
    /\ ckState = "idle"
    /\ GradeIdle
    /\ PIIIdle
    /\ RunIdle
    /\ RestIdle

DiscoverCandidateKeys ==
    /\ ckState = "idle"
    /\ candidate_keys' = CandidateKeys(df)
    /\ ckState' = "completed"
    /\ UNCHANGED <<df, gradeVars, restVars, piiVars, runVars>>

NextKeys == DiscoverCandidateKeys

SpecKeys == InitKeys /\ [][NextKeys]_vars

-----------------------------------------------------------------------------
(* The Column Quality Grader applied to arbitrary columns *)

\* the columns of `rows` rows a batch can hold, by their counts: `nulls` null
\* cells and `nuniq` distinct values counting null as a value
ColumnsOfRows(rows) ==
    { [rows |-> rows, nulls |-> n, nuniq |-> u, quality_score |-> q] :
        n \in 0..rows, u \in 1..rows, q \in QualityScores }

Realizable(c) ==
    LET nonnull == c.rows - c.nulls
        nullval == IF c.nulls > 0 THEN 1 ELSE 0
    IN  /\ c.nuniq >= nullval + (IF nonnull > 0 THEN 1 ELSE 0)
        /\ c.nuniq <= nullval + nonnull

GradedColumns ==
    { c \in ColumnsOfRows(GradeRows) \cup ColumnsOfRows(GradeRows \div 5) :
        Realizable(c) }

InitGrade ==
    /\ gcol \in GradedColumns
    /\ quality_grade = "none"
    /\ regraded = "no"
    /\ grade_before = "none"
    /\ KeysIdle
    /\ PIIIdle
    /\ RunIdle
    /\ RestIdle

\* the grader grades the column
GradeColumn ==
    /\ quality_grade = "none"
    /\ quality_grade' = ColumnGrade(gcol)
    /\ UNCHANGED <<gcol, regraded, grade_before, keyVars, piiVars, restVars, runVars>>

\* the grader then grades another column of the same batch that has the same
\* distinctness and a different number of nulls
GradeSibling ==
    /\ quality_grade # "none"
    /\ regraded = "no"
    /\ \E n \in 0..gcol.rows, q \in QualityScores :
          LET c == [rows |-> gcol.rows, nulls |-> n, nuniq |-> gcol.nuniq,
                    quality_score |-> q]
          IN  /\ n # gcol.nulls
              /\ Realizable(c)
              /\ gcol' = c
              /\ quality_grade' = ColumnGrade(c)
              /\ regraded' = IF n < gcol.nulls THEN "fewer_nulls" ELSE "more_nulls"
              /\ grade_before' = quality_grade
    /\ UNCHANGED <<keyVars, piiVars, restVars, runVars>>

NextGrade == GradeColumn \/ GradeSibling

SpecGrade == InitGrade /\ [][NextGrade]_vars

-----------------------------------------------------------------------------
(* The PII Detector's confidence score applied to arbitrary columns *)

\* a column by the number of rows, the number of rows matching a PII regex,
\* and whether its name contains a PII keyword
PIIColumns ==
    { [rows |-> n, matches |-> k, hinted |-> h] :
        n \in 1..MaxPIIRows, k \in 0..MaxPIIRows, h \in BOOLEAN }

InitPII ==
    /\ pcol \in {c \in PIIColumns : c.matches <= c.rows}
    /\ confidence_score = NoScore
    /\ risk_level = "none"
    /\ KeysIdle
    /\ GradeIdle
    /\ RunIdle
    /\ RestIdle

DetectPII ==
    /\ confidence_score = NoScore
    /\ confidence_score' = ConfidenceScore(match_rate(pcol), name_hint(pcol.hinted))
    /\ UNCHANGED <<pcol, risk_level, keyVars, gradeVars, restVars, runVars>>

\* D5.2 applied to the computed score
BucketRisk ==
    /\ confidence_score # NoScore
    /\ risk_level = "none"
    /\ risk_level' = RiskLevel(confidence_score)
    /\ UNCHANGED <<pcol, confidence_score, keyVars, gradeVars, restVars, runVars>>

NextPII == DetectPII \/ BucketRisk

SpecPII == InitPII /\ [][NextPII]_vars

-----------------------------------------------------------------------------
(* The Column Statistics Analyzer applied to arbitrary columns *)

\* all columns of at most n rows
ColumnsUpTo(n) == UNION {[1..k -> Cells] : k \in 0..n}

InitColumn ==
    /\ column \in ColumnsUpTo(MaxRows)
    /\ column_stats = NoStats
    /\ KeysIdle
    /\ GradeIdle
    /\ PIIIdle
    /\ RunIdle
    /\ TypeIdle
    /\ DashIdle
    /\ CancelIdle
    /\ WizardIdle
    /\ PageIdle

AnalyzeColumn ==
    /\ column_stats = NoStats
    /\ column_stats' = ColumnStatistics(column)
    /\ UNCHANGED <<column, keyVars, gradeVars, piiVars, runVars, typeVars,
                   dashVars, wizVars, cancelVars, pageVars>>

NextColumn == AnalyzeColumn

SpecColumn == InitColumn /\ [][NextColumn]_vars

-----------------------------------------------------------------------------
(* The Type Inferencer applied to arbitrary columns *)

TypedColumns == UNION {[1..k -> CellKinds \cup {NullCell}] : k \in 0..MaxRows}

\* majority thresholds in percent, and sampling caps
TypeConfigs ==
    [ threshold_pct : {50, 67, 100},
      sampling_cap  : {MaxRows - 1, MaxRows} ]

InitType ==
    /\ tcol \in TypedColumns
    /\ tcfg \in TypeConfigs
    /\ inferred_type = NoType
    /\ KeysIdle
    /\ GradeIdle
    /\ PIIIdle
    /\ RunIdle
    /\ ColumnIdle
    /\ DashIdle
    /\ CancelIdle
    /\ WizardIdle
    /\ PageIdle

InferType ==
    /\ inferred_type = NoType
    /\ inferred_type' = infer_type(tcol, tcfg)
    /\ UNCHANGED <<tcol, tcfg, keyVars, gradeVars, piiVars, runVars, colVars,
                   dashVars, wizVars, cancelVars, pageVars>>

NextType == InferType

SpecType == InitType /\ [][NextType]_vars

-----------------------------------------------------------------------------
(* The dashboard applied to arbitrary datasets *)

\* null percentages whose completeness sits on and next to the grade cutoffs
NullPercentages == {0, 10, 11, 15, 16, 30, 31, 100}

DatasetColumns ==
    UNION {[1..k -> [null_percentage : NullPercentages]] :
              k \in 0..MaxDatasetColumns}

\* the backend's dataset_quality block
\* overall_quality_score in tenths of a percent, pii_risk_score in percent
DatasetQualities ==
    [ overall_quality_score : {0, 875, 950},
      quality_grade         : {"Gold", "Silver", "Bronze"},
      pii_risk_score        : {0, 20, 50, 51} ]

\* the blocks other than dataset_quality that a dataset has
OtherBlocks(present) ==
    [b \in present |->
        IF b = "dataset_statistics"
        THEN [total_records |-> 3, total_columns |-> 0,
              dataset_size_bytes |-> 64, profiling_duration_seconds |-> 1]
        ELSE IF b = "referential_integrity"
        THEN [orphan_records |-> <<>>, cross_table_consistency |-> <<>>]
        ELSE [primary_key_suggestions |-> <<>>, single_column_keys |-> <<>>,
              composite_keys |-> <<>>]]

Datasets ==
    { [columns |-> c, dataset_name |-> "orders"] : c \in DatasetColumns }
    \cup { [columns |-> c, dataset_name |-> "orders", dataset_quality |-> q] :
              c \in DatasetColumns, q \in DatasetQualities }
    \cup { [columns |-> <<>>, dataset_name |-> "orders"] @@ OtherBlocks(p) :
              p \in SUBSET (OptionalBlocks \ {"dataset_quality"}) }
    \cup { [columns |-> <<>>, dataset_name |-> "orders", dataset_quality |-> q]
              @@ OtherBlocks(p) :
              p \in SUBSET (OptionalBlocks \ {"dataset_quality"}),
              q \in DatasetQualities }

InitDash ==
    /\ dataset \in Datasets
    /\ entity = NoEntity
    /\ page = NoPage
    /\ KeysIdle
    /\ GradeIdle
    /\ PIIIdle
    /\ RunIdle
    /\ ColumnIdle
    /\ TypeIdle
    /\ CancelIdle
    /\ WizardIdle
    /\ PageIdle

\* the dashboard renders the results
RenderDashboard ==
    /\ entity = NoEntity
    /\ entity' = Entities(dataset)
    /\ UNCHANGED <<dataset, page, keyVars, gradeVars, piiVars, runVars, colVars,
                   typeVars, cancelVars, wizVars, pageVars>>

\* onEntityClick of the dashboard's table: the entity view opens with the
\* dataset handed over in the navigation state, on its overview tab
onEntityClick ==
    /\ entity # NoEntity
    /\ page = NoPage
    /\ page' = EntityPage(dataset, "overview")
    /\ UNCHANGED <<dataset, entity, keyVars, gradeVars, piiVars, runVars,
                   colVars, typeVars, cancelVars, wizVars, pageVars>>

\* onClick of a tab of the entity view
setActiveTab(tab) ==
    /\ page # NoPage
    /\ page' = EntityPage(dataset, tab)
    /\ UNCHANGED <<dataset, entity, keyVars, gradeVars, piiVars, runVars,
                   colVars, typeVars, cancelVars, wizVars, pageVars>>

NextDash ==
    \/ RenderDashboard
    \/ onEntityClick
    \/ \E tab \in Tabs : setActiveTab(tab)

SpecDash == InitDash /\ [][NextDash]_vars

-----------------------------------------------------------------------------
(* The configuration wizard (Configuration.tsx) *)

\* the revisions of the page, by the line their component begins at
Revisions == {16, 396, 971}

\* the revisions whose job name field is on step 1
NameOnStepOne == {16, 971}

JobNames == {"", " ", "sales"}

\* !jobName.trim()
Blank(name) == name \in {"", " "}

\* the file ids /upload returns for n files, issued ids having been returned
NewFileIds(issued, n) == [k \in 1..n |-> issued + k]

\* the hidden file input is rendered inside the step 1 block
FileInputMounted == route = "/configure" /\ step = 1

\* what a number input can hold: nothing, or the characters of a number
SampleSizes ==
    {<<>>, <<"0">>, <<"-", "5">>, <<"2", "5">>, <<"1", ".", "5">>, <<".", "5">>}

DigitValue ==
    [c \in {"0", "1", "2", "3", "4", "5", "6", "7", "8", "9"} |->
        CASE c = "0" -> 0 [] c = "1" -> 1 [] c = "2" -> 2 [] c = "3" -> 3
          [] c = "4" -> 4 [] c = "5" -> 5 [] c = "6" -> 6 [] c = "7" -> 7
          [] c = "8" -> 8 [] c = "9" -> 9]

JsNull == [kind |-> "null", n |-> 0]

JsNaN == [kind |-> "NaN", n |-> 0]

JsNumber(n) == [kind |-> "number", n |-> n]

RECURSIVE LeadingDigits(_)
\* the digits a text starts with
LeadingDigits(text) ==
    IF text = <<>> \/ Head(text) \notin DOMAIN DigitValue
    THEN <<>>
    ELSE <<Head(text)>> \o LeadingDigits(Tail(text))

RECURSIVE DecimalValue(_)
DecimalValue(digits) ==
    IF digits = <<>>
    THEN 0
    ELSE 10 * DecimalValue(SubSeq(digits, 1, Len(digits) - 1))
            + DigitValue[digits[Len(digits)]]

\* parseInt: an optional sign and the digits up to the first other character
parseInt(text) ==
    LET negative == text # <<>> /\ Head(text) = "-"
        digits   == LeadingDigits(IF negative THEN Tail(text) ELSE text)
    IN  IF digits = <<>>
        THEN JsNaN
        ELSE JsNumber(IF negative THEN 0 - DecimalValue(digits)
                                  ELSE DecimalValue(digits))

\* the request body as JSON: NaN is written as null
Serialised(v) == IF v.kind = "NaN" THEN JsNull ELSE v

\* the checks of handleStartProfiling without the one of the job name
StartChecksFilesOnly ==
    IF Len(uploadedFiles) = 0
    THEN "Please upload at least one CSV file"
    ELSE "ok"

\* the checks handleStartProfiling returns on: the alert, or ok
StartChecks ==
    IF Len(uploadedFiles) = 0
    THEN "Please upload at least one CSV file"
    ELSE IF Blank(jobName)
    THEN "Please enter a job name"
    ELSE "ok"

\* jobData of handleStartProfiling
jobData ==
    [name        |-> jobName,
     file_paths  |-> uploadedFiles,
     sample_size |-> IF sampleSize # <<>> THEN parseInt(sampleSize) ELSE JsNull]

InitWizard ==
    /\ rev \in Revisions
    /\ step = 1
    /\ jobName = ""
    /\ uploadedFiles = <<>>
    /\ previewData = FALSE
    /\ alertMsg = "none"
    /\ route = "/configure"
    /\ sampleSize = <<>>
    /\ control = "none"
    /\ file_ids = 0
    /\ jobPosts = <<>>
    /\ jobs = <<>>
    /\ jobId = 0
    /\ KeysIdle
    /\ GradeIdle
    /\ PIIIdle
    /\ RunIdle
    /\ ColumnIdle
    /\ TypeIdle
    /\ DashIdle
    /\ CancelIdle
    /\ PageIdle

\* onChange of the job name field
setJobName(name) ==
    /\ route = "/configure"
    /\ step = IF rev \in NameOnStepOne THEN 1 ELSE 2
    /\ jobName' = name
    /\ control' = "job_name"
    /\ UNCHANGED <<rev, step, uploadedFiles, previewData, alertMsg, route,
                   sampleSize, file_ids, jobPosts, jobs, jobId,
                   keyVars, gradeVars, piiVars, runVars, colVars, typeVars,
                   dashVars, cancelVars, pageVars>>

\* onChange of the sample size field of step 3
setSampleSize(text) ==
    /\ route = "/configure"
    /\ step = 3
    /\ sampleSize' = text
    /\ control' = "sample_size"
    /\ UNCHANGED <<rev, step, jobName, uploadedFiles, previewData, alertMsg,
                   route, file_ids, jobPosts, jobs, jobId,
                   keyVars, gradeVars, piiVars, runVars, colVars, typeVars,
                   dashVars, cancelVars, pageVars>>

\* handleFileUpload of n selected files, posted one after the other: failed
\* is the first file whose post fails, 0 when none does.  The files before it
\* have their file_id from the backend; the list is set only after the loop.
handleFileUpload(n, failed) ==
    /\ FileInputMounted
    /\ file_ids + n <= MaxFiles
    /\ control' = "upload"
    /\ IF failed = 0
       THEN /\ file_ids' = file_ids + n
            /\ uploadedFiles' = uploadedFiles \o NewFileIds(file_ids, n)
            /\ alertMsg' = "Successfully uploaded"
       ELSE /\ file_ids' = file_ids + (failed - 1)
            /\ alertMsg' = "Failed to upload files"
            /\ UNCHANGED uploadedFiles
    /\ UNCHANGED <<rev, step, jobName, previewData, route, sampleSize,
                   jobPosts, jobs, jobId, keyVars, gradeVars,
                   piiVars, runVars, colVars, typeVars, dashVars, cancelVars,
                   pageVars>>

\* onClick of "+ Add More Files" on step 2: fileInputRef.current?.click().
\* The ref is that of the file input of step 1, which is not rendered on
\* step 2: the ref is null and no file dialog opens.
clickAddMoreFiles ==
    /\ route = "/configure"
    /\ step = 2
    /\ Len(uploadedFiles) > 0
    /\ ~FileInputMounted
    /\ control' = "add_more_files"
    /\ UNCHANGED <<rev, step, jobName, uploadedFiles, previewData, alertMsg,
                   route, sampleSize, file_ids, jobPosts, jobs, jobId,
                   keyVars, gradeVars, piiVars, runVars, colVars, typeVars,
                   dashVars, cancelVars, pageVars>>

\* handleNext of the revisions at lines 16 and 971: step 1 is validated; the
\* revision at 971 loads the preview of the first file on leaving step 2
handleNext(loaded) ==
    /\ route = "/configure"
    /\ rev \in {16, 971}
    /\ control' = "next"
    /\ IF step = 1 /\ Blank(jobName)
       THEN /\ alertMsg' = "Please enter a job name"
            /\ UNCHANGED <<step, previewData>>
       ELSE IF step = 1 /\ Len(uploadedFiles) = 0
       THEN /\ alertMsg' = "Please upload at least one CSV file"
            /\ UNCHANGED <<step, previewData>>
       ELSE /\ IF rev = 971 /\ step = 2 /\ ~previewData /\ Len(uploadedFiles) > 0
               THEN /\ previewData' = loaded
                    /\ alertMsg' = IF loaded THEN alertMsg
                                             ELSE "Failed to preview file"
               ELSE UNCHANGED <<previewData, alertMsg>>
            /\ step' = IF step < 3 THEN step + 1 ELSE step
    /\ UNCHANGED <<rev, jobName, uploadedFiles, route, sampleSize, file_ids,
                   jobPosts, jobs, jobId, keyVars, gradeVars,
                   piiVars, runVars, colVars, typeVars, dashVars, cancelVars,
                   pageVars>>

\* handleNext of the revision at line 396
handleNextUnchecked ==
    /\ route = "/configure"
    /\ rev = 396
    /\ step < 3
    /\ step' = step + 1
    /\ control' = "next"
    /\ UNCHANGED <<rev, jobName, uploadedFiles, previewData, alertMsg, route,
                   sampleSize, file_ids, jobPosts, jobs, jobId,
                   keyVars, gradeVars, piiVars, runVars, colVars, typeVars,
                   dashVars, cancelVars, pageVars>>

\* handleBack: one step back, from step 1 to the home page
handleBack ==
    /\ route = "/configure"
    /\ control' = "back"
    /\ IF step > 1
       THEN step' = step - 1 /\ UNCHANGED route
       ELSE route' = "/" /\ UNCHANGED step
    /\ UNCHANGED <<rev, jobName, uploadedFiles, previewData, alertMsg,
                   sampleSize, file_ids, jobPosts, jobs, jobId,
                   keyVars, gradeVars, piiVars, runVars, colVars, typeVars,
                   dashVars, cancelVars, pageVars>>

\* handleStartProfiling up to its await: the two checks, then POST /jobs
handleStartProfiling ==
    /\ route = "/configure"
    /\ step = 3
    /\ Len(jobPosts) < MaxPosts
    /\ control' = "start_profiling"
    /\ IF StartChecks # "ok"
       THEN /\ alertMsg' = StartChecks
            /\ UNCHANGED jobPosts
       ELSE /\ jobPosts' = Append(jobPosts,
                  [jobData EXCEPT !.sample_size = Serialised(@)])
            /\ UNCHANGED alertMsg
    /\ UNCHANGED <<rev, step, jobName, uploadedFiles, previewData, route,
                   sampleSize, file_ids, jobs, jobId,
                   keyVars, gradeVars, piiVars, runVars, colVars, typeVars,
                   dashVars, cancelVars, pageVars>>

\* handleStartProfiling after its await: the backend created the job and the
\* page navigates to its dashboard, or the request failed and an alert shows
jobsResponse(k, ok) ==
    /\ k \in 1..Len(jobPosts)
    /\ jobPosts' = [i \in 1..(Len(jobPosts) - 1) |->
                       IF i < k THEN jobPosts[i] ELSE jobPosts[i + 1]]
    /\ IF ok
       THEN /\ jobs' = Append(jobs, jobPosts[k])
            /\ route' = "/dashboard"
            /\ jobId' = Len(jobs) + 1
            /\ UNCHANGED alertMsg
       ELSE /\ alertMsg' = "Failed to create job"
            /\ UNCHANGED <<jobs, route, jobId>>
    /\ UNCHANGED <<rev, step, jobName, uploadedFiles, previewData,
                   sampleSize, control, file_ids,
                   keyVars, gradeVars, piiVars, runVars, colVars, typeVars,
                   dashVars, cancelVars, pageVars>>

NextWizard ==
    \/ \E name \in JobNames : setJobName(name)
    \/ \E text \in SampleSizes : setSampleSize(text)
    \/ \E n \in 1..MaxFiles, failed \in 0..MaxFiles :
          failed <= n /\ handleFileUpload(n, failed)
    \/ clickAddMoreFiles
    \/ \E loaded \in BOOLEAN : handleNext(loaded)
    \/ handleNextUnchecked
    \/ handleBack
    \/ handleStartProfiling
    \/ \E k \in 1..MaxPosts, ok \in BOOLEAN : jobsResponse(k, ok)

SpecWizard == InitWizard /\ [][NextWizard]_vars

-----------------------------------------------------------------------------
(* The dashboard's loading of a job: the effect, its interval, the requests *)

JobIds == {1, 2}

\* JobStatus: the statuses a job has at the backend
JobStatuses == {"pending", "running", "completed", "failed", "cancelled"}

\* the statuses a job can pass to at the backend
NextStatuses(status) ==
    IF status = "pending" THEN {"running", "cancelled"}
    ELSE IF status = "running" THEN {"completed", "failed", "cancelled"}
    ELSE {}

\* job?.status === 'pending' || job?.status === 'running'
Polls(status) == status \in {"pending", "running"}

\* GET /jobs/{jobId} issued by a call of fetchJobData: the effect's initial
\* one or a periodic one of its interval.  live says whether the effect whose
\* closure the call belongs to is the one that ran last, so that the call's
\* intervalId is the interval now set
StatusRequest(id, live, periodic) ==
    [kind |-> "status", jobId |-> id, live |-> live, periodic |-> periodic]

\* GET /jobs/{jobId}/results, issued by the same call of fetchJobData
ResultsRequest(id, live) ==
    [kind |-> "results", jobId |-> id, live |-> live, periodic |-> FALSE]

\* the effect as it runs for the dependencies [jobId, job?.status]: it keeps
\* both in its closure and sets an interval
Effect(id, status) == [jobId |-> id, status |-> status, interval |-> TRUE]

\* a dependency of the effect changed in the render with `id` and `status`
EffectRuns(id, status) == <<id, status>> # <<effect.jobId, effect.status>>

\* after a render with job id `id` and job status `status`: the effect runs
\* again when a dependency changed, which clears the interval of the effect
\* before; clearInterval(intervalId) of a call of fetchJobData clears the
\* interval of the effect the call belongs to
EffectAfter(id, status, cleared) ==
    IF EffectRuns(id, status)
    THEN Effect(id, status)
    ELSE [effect EXCEPT !.interval = @ /\ ~cleared]

\* the requests awaiting their answer after that render: those of the
\* effects before belong to no live interval, and the effect that runs again
\* calls fetchJobData()
RequestsAfter(reqs, id, status) ==
    IF EffectRuns(id, status)
    THEN {[q EXCEPT !.live = FALSE] : q \in reqs}
            \cup {StatusRequest(id, TRUE, FALSE)}
    ELSE reqs

InitPoll ==
    /\ rev = 0
    /\ step = 0
    /\ jobName = ""
    /\ uploadedFiles = <<>>
    /\ previewData = FALSE
    /\ alertMsg = "none"
    /\ sampleSize = <<>>
    /\ control = "none"
    /\ file_ids = 0
    /\ jobPosts = <<>>
    /\ jobs = <<>>
    /\ route = "/dashboard"
    /\ jobId \in JobIds
    /\ backend \in [JobIds -> JobStatuses]
    /\ job = NoJob
    /\ jobResults = NoResults
    /\ loading = TRUE
    /\ error = "none"
    /\ effect = Effect(jobId, "none")
    /\ requests = {StatusRequest(jobId, TRUE, FALSE)}
    /\ navigations = 0
    /\ observedEnd = FALSE
    /\ requestFailed = FALSE
    /\ KeysIdle
    /\ GradeIdle
    /\ PIIIdle
    /\ RunIdle
    /\ ColumnIdle
    /\ TypeIdle
    /\ DashIdle
    /\ CancelIdle

\* the job passes to its next status at the backend
backendStep(id) ==
    /\ \E status \in NextStatuses(backend[id]) :
          backend' = [backend EXCEPT ![id] = status]
    /\ UNCHANGED <<job, jobResults, loading, error, effect, requests,
                   navigations, observedEnd, requestFailed, wizVars, keyVars,
                   gradeVars, piiVars, runVars, colVars, typeVars, dashVars,
                   cancelVars>>

\* the callback of the interval of the effect
tick ==
    /\ route = "/dashboard"
    /\ effect.interval
    /\ Polls(effect.status)
    /\ requests' = requests \cup {StatusRequest(effect.jobId, TRUE, TRUE)}
    /\ UNCHANGED <<job, jobResults, loading, error, effect, backend,
                   navigations, observedEnd, requestFailed, wizVars, keyVars,
                   gradeVars, piiVars, runVars, colVars, typeVars, dashVars,
                   cancelVars>>

\* fetchJobData from the answer to GET /jobs/{jobId} on: setJob, and on
\* completed the results are requested, on failed the error is set; the catch
\* when the request failed
statusResponse(r, ok) ==
    /\ route = "/dashboard"
    /\ r \in requests
    /\ r.kind = "status"
    /\ LET status  == backend[r.jobId]
           cleared == r.live /\ (~ok \/ status = "failed")
       IN  IF ok
           THEN /\ job' = [job_id |-> r.jobId, status |-> status]
                /\ loading' = IF status = "failed" THEN FALSE ELSE loading
                /\ error' = IF status = "failed" THEN "Job failed" ELSE error
                /\ effect' = EffectAfter(jobId, status, cleared)
                /\ requests' =
                      RequestsAfter(
                          (requests \ {r})
                              \cup (IF status = "completed"
                                    THEN {ResultsRequest(r.jobId, r.live)}
                                    ELSE {}),
                          jobId, status)
                /\ observedEnd' =
                      (observedEnd \/
                          (r.jobId = jobId /\ status \in {"completed", "failed"}))
                /\ UNCHANGED requestFailed
           ELSE /\ error' = "Failed to fetch job data"
                /\ loading' = FALSE
                /\ effect' = EffectAfter(effect.jobId, effect.status, cleared)
                /\ requests' = requests \ {r}
                /\ requestFailed' = TRUE
                /\ UNCHANGED <<job, observedEnd>>
    /\ UNCHANGED <<jobResults, backend, navigations, wizVars, keyVars,
                   gradeVars, piiVars, runVars, colVars, typeVars, dashVars,
                   cancelVars>>

\* fetchJobData from the answer to GET /jobs/{jobId}/results on
resultsResponse(r, ok) ==
    /\ route = "/dashboard"
    /\ r \in requests
    /\ r.kind = "results"
    /\ requests' = requests \ {r}
    /\ loading' = FALSE
    /\ effect' = EffectAfter(effect.jobId, effect.status, r.live)
    /\ IF ok
       THEN /\ jobResults' = [job_id |-> r.jobId]
            /\ UNCHANGED <<error, requestFailed>>
       ELSE /\ error' = "Failed to fetch job data"
            /\ requestFailed' = TRUE
            /\ UNCHANGED jobResults
    /\ UNCHANGED <<job, backend, navigations, observedEnd, wizVars, keyVars,
                   gradeVars, piiVars, runVars, colVars, typeVars, dashVars,
                   cancelVars>>

\* the route goes to the dashboard of another job: the component stays
\* mounted with its state, useParams gives the new jobId and the effect runs
\* again
openDashboard(id) ==
    /\ route = "/dashboard"
    /\ id # jobId
    /\ navigations < MaxNavigations
    /\ navigations' = navigations + 1
    /\ jobId' = id
    /\ effect' = Effect(id, job.status)
    /\ requests' = {[q EXCEPT !.live = FALSE] : q \in requests}
                       \cup {StatusRequest(id, TRUE, FALSE)}
    /\ observedEnd' = FALSE
    /\ requestFailed' = FALSE
    /\ UNCHANGED <<job, jobResults, loading, error, backend, formVars, route,
                   keyVars, gradeVars, piiVars, runVars, colVars, typeVars,
                   dashVars, cancelVars>>

\* an answer arrives
Respond == \E r \in requests, ok \in BOOLEAN :
              statusResponse(r, ok) \/ resultsResponse(r, ok)

NextPoll ==
    \/ \E id \in JobIds : backendStep(id)
    \/ tick
    \/ Respond
    \/ \E id \in JobIds : openDashboard(id)

\* the timer fires and every request is answered in the end
SpecPoll ==
    InitPoll /\ [][NextPoll]_vars /\ WF_vars(tick) /\ WF_vars(Respond)

-----------------------------------------------------------------------------
(* The Referential Integrity Checker applied to arbitrary column pairs *)

RICols == <<"child", "parent">>

\* declared pairs: the parent column exists, or is not in the batch
FKDeclarations ==
    { << [child |-> "child", parent |-> "customer_id"],
         [child |-> "child", parent |-> "parent"] >>,
      << [child |-> "child", parent |-> "parent"],
         [child |-> "child", parent |-> "customer_id"] >>,
      << [child |-> "child", parent |-> "parent"],
         [child |-> "parent", parent |-> "child"] >> }

InitRI ==
    /\ \E n \in 0..MaxRows : df \in BatchesOf(RICols, n)
    /\ \E f \in FKDeclarations : cfg = [fk_pairs |-> f]
    /\ candidate_keys = NoKeys
    /\ ckState = "idle"
    /\ faults = [columns |-> {}, rules |-> {}]
    /\ phase = "idle"
    /\ colState = <<>>
    /\ results = <<>>
    /\ finished = <<>>
    /\ riState = "idle"
    /\ referential_integrity = <<>>
    /\ profile = NoProfile
    /\ run = "none"
    /\ prev = NoProfile
    /\ GradeIdle
    /\ PIIIdle
    /\ RestIdle

CheckReferentialIntegrity ==
    /\ riState = "idle"
    /\ referential_integrity' = ReferentialIntegrity(df, cfg.fk_pairs)
    /\ riState' = "completed"
    /\ UNCHANGED <<df, cfg, candidate_keys, ckState, faults, phase, colState,
                   results, finished, profile, run, prev, gradeVars, piiVars,
                   restVars>>

NextRI == CheckReferentialIntegrity

SpecRI == InitRI /\ [][NextRI]_vars

-----------------------------------------------------------------------------
(* One profiling run: (TabularBatch, RuleConfig) -> DatasetProfile *)

BatchA ==
    << [name |-> "a", values |-> <<1, 2, 3>>],
       [name |-> "b", values |-> <<1, 1, 2>>],
       [name |-> "c", values |-> <<Null, 3, 3>>] >>

BatchB ==
    << [name |-> "a", values |-> <<1, 1, 3>>],
       [name |-> "b", values |-> <<2, 1, 1>>],
       [name |-> "c", values |-> <<3, Null, Null>>] >>

RunBatches == {BatchA, BatchB}

\* the declared foreign keys; the second names a parent the batch lacks
ForeignKeys ==
    << [child |-> "b", parent |-> "a"], [child |-> "c", parent |-> "customer_id"] >>

RuleConfigs ==
    [ pii_patterns  : {<<>>, <<"email", "phone">>},
      workers       : 1..MaxWorkers,
      max_rows      : (MaxRows - 1)..MaxRows,
      dataset_rules : BOOLEAN,
      fk_pairs      : {ForeignKeys} ]

Faults ==
    { f \in [columns : SUBSET (1..3), rules : SUBSET {"candidate_keys",
                                                     "referential_integrity"}] :
        Cardinality(f.columns) <= MaxFaults }

\* the state of a run that has not started
FreshRun ==
    /\ phase = "created"
    /\ colState = [i \in ColIndex(df) |-> "pending"]
    /\ results = [i \in ColIndex(df) |-> NoResult]
    /\ finished = <<>>
    /\ ckState = "idle"
    /\ riState = "idle"
    /\ candidate_keys = NoKeys
    /\ referential_integrity = <<>>
    /\ profile = NoProfile

Init ==
    /\ df \in RunBatches
    /\ cfg \in RuleConfigs
    /\ faults \in Faults
    /\ FreshRun
    /\ run = "first"
    /\ prev = NoProfile
    /\ GradeIdle
    /\ PIIIdle
    /\ RestIdle

Running == {i \in ColIndex(df) : colState[i] = "running"}

\* every column's work has ended, in success or in failure
AllColumnsDone(cs) == \A i \in DOMAIN cs : cs[i] \in {"completed", "failed"}

\* every column's work has been handed to a worker
AllColumnsStarted(cs) == \A i \in DOMAIN cs : cs[i] # "pending"

\* the barrier in front of the dataset-level rules
Barrier(cs) == AllColumnsDone(cs)

BatchTooLarge == Rows(df) > cfg.max_rows

\* the RuleConfig is checked before anything else
ValidateConfig ==
    /\ phase = "created"
    /\ phase' = IF ValidConfig(cfg) THEN "columns" ELSE "config_error"
    /\ UNCHANGED <<df, cfg, faults, colState, results, finished, ckState,
                   riState, candidate_keys, referential_integrity, profile,
                   run, prev, gradeVars, restVars, piiVars>>

\* a free worker takes a pending column
StartColumn(i) ==
    /\ phase = "columns"
    /\ colState[i] = "pending"
    /\ Cardinality(Running) < cfg.workers
    /\ colState' = [colState EXCEPT ![i] = "running"]
    /\ UNCHANGED <<df, cfg, faults, phase, results, finished, ckState, riState,
                   candidate_keys, referential_integrity, profile, run, prev,
                   gradeVars, restVars, piiVars>>

\* an exception in one column ends the run
FinishColumnAbort(i) ==
    /\ colState[i] = "running"
    /\ IF i \in faults.columns
       THEN /\ colState' = [colState EXCEPT ![i] = "failed"]
            /\ phase' = "aborted"
            /\ UNCHANGED results
       ELSE /\ colState' = [colState EXCEPT ![i] = "completed"]
            /\ results' = [results EXCEPT ![i] = ColumnProfile(df[i])]
            /\ UNCHANGED phase
    /\ finished' = Append(finished, i)
    /\ UNCHANGED <<df, cfg, faults, ckState, riState, candidate_keys,
                   referential_integrity, profile, run, prev, gradeVars, restVars, piiVars>>

\* a worker ends its column: with the profile, or with the exception caught
FinishColumn(i) ==
    /\ colState[i] = "running"
    /\ IF i \in faults.columns
       THEN /\ colState' = [colState EXCEPT ![i] = "failed"]
            /\ results' = [results EXCEPT ![i] = FailedColumnProfile(df[i])]
       ELSE /\ colState' = [colState EXCEPT ![i] = "completed"]
            /\ results' = [results EXCEPT ![i] = ColumnProfile(df[i])]
    /\ finished' = Append(finished, i)
    /\ UNCHANGED <<df, cfg, faults, phase, ckState, riState, candidate_keys,
                   referential_integrity, profile, run, prev, gradeVars, restVars, piiVars>>

\* past the barrier the dataset-level stage begins; the dataset-level rules
\* are skipped when disabled or when the batch exceeds the threshold
BeginDatasetRules ==
    /\ phase = "columns"
    /\ Barrier(colState)
    /\ phase' = "dataset"
    /\ IF ~cfg.dataset_rules \/ BatchTooLarge
       THEN ckState' = "skipped" /\ riState' = "skipped"
       ELSE UNCHANGED <<ckState, riState>>
    /\ UNCHANGED <<df, cfg, faults, colState, results, finished, candidate_keys,
                   referential_integrity, profile, run, prev, gradeVars, restVars, piiVars>>

\* the Candidate Key Discoverer
RunCandidateKeys ==
    /\ phase = "dataset"
    /\ ckState = "idle"
    /\ IF "candidate_keys" \in faults.rules
       THEN ckState' = "failed" /\ UNCHANGED candidate_keys
       ELSE ckState' = "completed" /\ candidate_keys' = CandidateKeys(df)
    /\ UNCHANGED <<df, cfg, faults, phase, colState, results, finished, riState,
                   referential_integrity, profile, run, prev, gradeVars, restVars, piiVars>>

\* the Referential Integrity Checker
RunReferentialIntegrity ==
    /\ phase = "dataset"
    /\ riState = "idle"
    /\ IF "referential_integrity" \in faults.rules
       THEN riState' = "failed" /\ UNCHANGED referential_integrity
       ELSE /\ riState' = "completed"
            /\ referential_integrity' = ReferentialIntegrity(df, cfg.fk_pairs)
    /\ UNCHANGED <<df, cfg, faults, phase, colState, results, finished, ckState,
                   candidate_keys, profile, run, prev, gradeVars, restVars, piiVars>>

\* the Dataset Aggregator builds the profile document
Aggregate ==
    /\ phase = "dataset"
    /\ ckState # "idle"
    /\ riState # "idle"
    /\ profile' = DatasetProfile(df, results, finished, ckState, riState,
                                 candidate_keys, referential_integrity)
    /\ phase' = "done"
    /\ UNCHANGED <<df, cfg, faults, colState, results, finished, ckState, riState,
                   candidate_keys, referential_integrity, run, prev, gradeVars, restVars,
                   piiVars>>

\* the same batch is profiled again with the same RuleConfig
ProfileAgain ==
    /\ phase = "done"
    /\ run = "first"
    /\ run' = "second"
    /\ prev' = profile
    /\ phase' = "created"
    /\ colState' = [i \in ColIndex(df) |-> "pending"]
    /\ results' = [i \in ColIndex(df) |-> NoResult]
    /\ finished' = <<>>
    /\ ckState' = "idle"
    /\ riState' = "idle"
    /\ candidate_keys' = NoKeys
    /\ referential_integrity' = <<>>
    /\ profile' = NoProfile
    /\ UNCHANGED <<df, cfg, faults, gradeVars, restVars, piiVars>>

Next ==
    \/ ValidateConfig
    \/ \E i \in ColIndex(df) : StartColumn(i)
    \/ \E i \in ColIndex(df) : FinishColumn(i)
    \/ BeginDatasetRules
    \/ RunCandidateKeys
    \/ RunReferentialIntegrity
    \/ Aggregate
    \/ ProfileAgain

Spec == Init /\ [][Next]_vars

-----------------------------------------------------------------------------
(* A profiling run that can be cancelled (design 5) *)

\* the cancellation signal is not looked at
MayProceedRegardless(signal) == TRUE

\* the cooperative check in front of every new piece of work
MayProceed(signal) == ~signal

RunningPairs == {k \in DOMAIN pairState : pairState[k] = "running"}

TerminalPhases == {"done", "config_error", "cancelled"}

InitCancel ==
    /\ df \in RunBatches
    /\ cfg \in RuleConfigs
    /\ faults \in {f \in Faults : "referential_integrity" \notin f.rules}
    /\ FreshRun
    /\ run = "first"
    /\ prev = NoProfile
    /\ cancelled = FALSE
    /\ pairState = [k \in 1..Len(cfg.fk_pairs) |-> "pending"]
    /\ GradeIdle
    /\ PIIIdle
    /\ ColumnIdle
    /\ TypeIdle
    /\ DashIdle
    /\ WizardIdle
    /\ PageIdle

\* the job-level cancellation signal is raised
CancelRun ==
    /\ phase \notin TerminalPhases
    /\ ~cancelled
    /\ cancelled' = TRUE
    /\ UNCHANGED <<pairState, keyVars, runVars, gradeVars, piiVars, colVars,
                   typeVars, dashVars, wizVars, pageVars>>

\* the checker takes the next declared pair
StartPair(k) ==
    /\ MayProceed(cancelled)
    /\ phase = "dataset"
    /\ riState = "idle"
    /\ pairState[k] = "pending"
    /\ RunningPairs = {}
    /\ pairState' = [pairState EXCEPT ![k] = "running"]
    /\ UNCHANGED <<cancelled, keyVars, runVars, gradeVars, piiVars, colVars,
                   typeVars, dashVars, wizVars, pageVars>>

\* the check of one pair ends; the last one completes the rule
FinishPair(k) ==
    /\ pairState[k] = "running"
    /\ pairState' = [pairState EXCEPT ![k] = "done"]
    /\ IF \A m \in DOMAIN pairState : m # k => pairState[m] = "done"
       THEN /\ riState' = "completed"
            /\ referential_integrity' = ReferentialIntegrity(df, cfg.fk_pairs)
       ELSE UNCHANGED <<riState, referential_integrity>>
    /\ UNCHANGED <<cancelled, keyVars, cfg, faults, phase, colState, results,
                   finished, profile, run, prev, gradeVars, piiVars, colVars,
                   typeVars, dashVars, wizVars, pageVars>>

\* a cancelled run's column task is abandoned
AbortColumn(i) ==
    /\ cancelled
    /\ colState[i] = "running"
    /\ colState' = [colState EXCEPT ![i] = "cancelled"]
    /\ UNCHANGED <<cancelVars, keyVars, cfg, faults, phase, results, finished,
                   riState, referential_integrity, profile, run, prev,
                   gradeVars, piiVars, colVars, typeVars, dashVars, wizVars, pageVars>>

\* a cancelled run's pair check is abandoned
AbortPair(k) ==
    /\ cancelled
    /\ pairState[k] = "running"
    /\ pairState' = [pairState EXCEPT ![k] = "cancelled"]
    /\ UNCHANGED <<cancelled, keyVars, runVars, gradeVars, piiVars, colVars,
                   typeVars, dashVars, wizVars, pageVars>>

\* nothing of the cancelled run is in progress any more: the run ends
EndCancelledRun ==
    /\ cancelled
    /\ phase \notin TerminalPhases
    /\ Running = {}
    /\ RunningPairs = {}
    /\ phase' = "cancelled"
    /\ UNCHANGED <<cancelVars, keyVars, cfg, faults, colState, results,
                   finished, riState, referential_integrity, profile, run,
                   prev, gradeVars, piiVars, colVars, typeVars, dashVars, wizVars, pageVars>>

NextCancel ==
    \/ CancelRun
    \/ MayProceed(cancelled) /\ ValidateConfig
    \/ \E i \in ColIndex(df) : MayProceed(cancelled) /\ StartColumn(i)
    \/ \E i \in ColIndex(df) : FinishColumn(i)
    \/ MayProceed(cancelled) /\ BeginDatasetRules
    \/ MayProceed(cancelled) /\ RunCandidateKeys
    \/ \E k \in DOMAIN pairState : StartPair(k)
    \/ \E k \in DOMAIN pairState : FinishPair(k)
    \/ MayProceed(cancelled) /\ Aggregate
    \/ \E i \in ColIndex(df) : AbortColumn(i)
    \/ \E k \in DOMAIN pairState : AbortPair(k)
    \/ EndCancelledRun

\* every worker and the orchestrator keep being scheduled
SpecCancel == InitCancel /\ [][NextCancel]_vars /\ WF_vars(NextCancel)

-----------------------------------------------------------------------------
(* helpers of the properties *)

NoNullIn(col) == \A i \in 1..Len(col) : col[i] # Null

-----------------------------------------------------------------------------
\* C1: every single column reported with recommendation primary_key has no
\* null cell, and its cells (null counted as a value) are pairwise different,
\* i.e. as many distinct values as the batch has rows.
C1_PrimaryKeySound ==
    \A k \in candidate_keys.single_column_keys :
        k.recommendation = "primary_key" =>
            LET col == ColumnNamed(df, k.columns[1]) IN
            /\ NoNullIn(col)
            /\ \A i, j \in 1..Rows(df) : i # j => col[i] # col[j]

\* a column of at least two rows is reported as primary_key
C1_Witness ==
    /\ ckState = "completed"
    /\ Rows(df) >= 2
    /\ \E k \in candidate_keys.single_column_keys : k.recommendation = "primary_key"

\* C2: every two-column combination reported as a qualifying candidate key
\* has no null in either column in any row, and its (col1, col2) tuples are
\* pairwise different, i.e. as many distinct tuples as the batch has rows.
C2_CompositeKeySound ==
    \A k \in candidate_keys.composite_keys :
        k.recommendation # "near_unique" =>
            LET c1 == ColumnNamed(df, k.columns[1])
                c2 == ColumnNamed(df, k.columns[2]) IN
            /\ NoNullIn(c1)
            /\ NoNullIn(c2)
            /\ \A i, j \in 1..Rows(df) :
                  i # j => <<c1[i], c2[i]>> # <<c1[j], c2[j]>>

\* a pair qualifies although neither of its columns is unique alone
C2_Witness ==
    /\ ckState = "completed"
    /\ Rows(df) >= 3
    /\ QualifyingColumns(df) = {}
    /\ \E k \in candidate_keys.composite_keys : k.recommendation = "candidate_key"

-----------------------------------------------------------------------------
\* C3: the Candidate Key Discoverer and the Referential Integrity Checker
\* have not started (and the dataset-level stage has not begun) while the
\* column-level work of any column is pending or running, whatever the
\* worker count and the order in which the workers finish.
C3_DatasetRulesAfterBarrier ==
    (ckState # "idle" \/ riState # "idle" \/ phase \in {"dataset", "done"}) =>
        \A i \in ColIndex(df) :
            /\ colState[i] \in {"completed", "failed"}
            /\ results[i] # NoResult

\* two workers finished the columns out of schema order, and the discoverer ran
C3_Witness ==
    /\ cfg.workers >= 2
    /\ finished = <<3, 1, 2>>
    /\ ckState = "completed"
    /\ riState = "completed"

\* C4: a column whose profiling raised has its profile marked failed; the
\* run is not aborted by it and can always take a further step until it is
\* done; and the DatasetProfile of a finished run holds a failed profile for
\* each raising column and a completed profile for every other column.
C4_ColumnFailureIsolated ==
    /\ \A i \in ColIndex(df) :
          colState[i] = "failed" => results[i].status = "failed"
    /\ (\E i \in ColIndex(df) : colState[i] = "failed") =>
          /\ phase \in {"columns", "dataset", "done"}
          /\ phase # "done" => ENABLED Next
    /\ phase = "done" =>
          /\ profile # NoProfile
          /\ Len(profile.columns) = Len(df)
          /\ \A i \in ColIndex(df) :
                /\ profile.columns[i].column_name = df[i].name
                /\ IF i \in faults.columns
                   THEN profile.columns[i].status = "failed"
                   ELSE /\ profile.columns[i].status = "completed"
                        /\ profile.columns[i].total_count = Rows(df)
                        /\ profile.columns[i].null_count =
                              Cardinality({r \in 1..Rows(df) : df[i].values[r] = Null})

\* the second column raised first; the run ended with the other two profiled
C4_Witness ==
    /\ phase = "done"
    /\ faults.columns = {2}
    /\ finished[1] = 2
    /\ profile.columns[2].status = "failed"
    /\ profile.columns[1].status = "completed"
    /\ profile.columns[3].status = "completed"

\* C5: with an empty regex list the run goes from created to config_error
\* only: no column is ever started or profiled, no dataset-level rule is
\* started, and no profile is produced.
C5_ConfigErrorBeforeAnyWork ==
    Len(cfg.pii_patterns) = 0 =>
        /\ phase \in {"created", "config_error"}
        /\ \A i \in ColIndex(df) : colState[i] = "pending" /\ results[i] = NoResult
        /\ finished = <<>>
        /\ ckState = "idle"
        /\ riState = "idle"
        /\ profile = NoProfile

\* a run has failed with the configuration error
C5_Witness ==
    /\ Len(cfg.pii_patterns) = 0
    /\ phase = "config_error"

\* C6: the DatasetProfile of a finished run gives every rule group a status
\* among completed, skipped and failed; the candidate-key and
\* referential-integrity groups are skipped when the batch exceeds the
\* threshold, and failed when the rule raised; a block is present exactly
\* when its group completed; and a dataset-level failure or skip leaves the
\* run able to go on until the profile is returned.
C6_ExplicitRuleStatus ==
    /\ phase = "done" =>
          /\ DOMAIN profile.rule_status = RuleGroups
          /\ \A g \in RuleGroups : profile.rule_status[g] \in Statuses
          /\ BatchTooLarge =>
                /\ profile.rule_status["candidate_keys"] = "skipped"
                /\ profile.rule_status["referential_integrity"] = "skipped"
          /\ \A g \in {"candidate_keys", "referential_integrity"} :
                /\ (g \in faults.rules /\ ~BatchTooLarge /\ cfg.dataset_rules)
                      => profile.rule_status[g] = "failed"
                /\ (g \in DOMAIN profile) <=> (profile.rule_status[g] = "completed")
    /\ phase = "dataset" => ENABLED Next
    /\ (ckState \in {"failed", "skipped"} \/ riState \in {"failed", "skipped"})
          => phase \in {"dataset", "done"}

\* a batch over the threshold was profiled: both groups skipped, blocks absent
C6_Witness ==
    /\ phase = "done"
    /\ BatchTooLarge
    /\ cfg.dataset_rules
    /\ profile.rule_status["candidate_keys"] = "skipped"
    /\ "candidate_keys" \notin DOMAIN profile

-----------------------------------------------------------------------------
\* Bronze < Silver < Gold
GradeRank(g) == CASE g = "Gold" -> 3 [] g = "Silver" -> 2 [] g = "Bronze" -> 1
                  [] OTHER -> 0

\* the cutoffs in percent of the row count
MeetsGold(c) ==
    /\ 100 * c.nulls <= 1 * c.rows
    /\ 5 * c.rows <= 100 * c.nuniq
    /\ 100 * c.nuniq <= 95 * c.rows

MeetsSilver(c) ==
    /\ 100 * c.nulls <= 5 * c.rows
    /\ 2 * c.rows <= 100 * c.nuniq
    /\ 100 * c.nuniq <= 98 * c.rows

C9_GradeMonotoneInNullRate ==
    /\ regraded = "fewer_nulls" => GradeRank(quality_grade) >= GradeRank(grade_before)
    /\ regraded = "more_nulls" => GradeRank(quality_grade) <= GradeRank(grade_before)

\* a column with fewer nulls and the same distinctness got a strictly better grade
C9_Witness ==
    /\ regraded = "fewer_nulls"
    /\ grade_before = "Bronze"
    /\ quality_grade = "Gold"

RiskRank(l) == IF l = "Low" THEN 1 ELSE IF l = "Medium" THEN 2 ELSE 3

\* C11: the risk level of a scored column is Low exactly when its confidence
\* score is below 0.2, Medium exactly when it is from 0.2 to 0.5, High exactly
\* when it is above 0.5; no column with a score at most this one's is put in
\* a higher bucket.
C11_RiskLevelBuckets ==
    risk_level # "none" =>
        LET s == confidence_score
        IN  /\ risk_level \in {"Low", "Medium", "High"}
            /\ risk_level = "Low" <=> 10 * s.num < 2 * s.den
            /\ risk_level = "Medium" <=>
                    (10 * s.num >= 2 * s.den /\ 10 * s.num <= 5 * s.den)
            /\ risk_level = "High" <=> 10 * s.num > 5 * s.den
            /\ \A c \in {x \in PIIColumns : x.matches <= x.rows} :
                  LET t == ConfidenceScore(match_rate(c), name_hint(c.hinted))
                  IN  t.num * s.den <= s.num * t.den =>
                          RiskRank(RiskLevel(t)) <= RiskRank(risk_level)

\* a hinted column with 2 of 7 rows matching scores exactly 0.5: Medium
C11_Witness ==
    /\ risk_level = "Medium"
    /\ 10 * confidence_score.num = 5 * confidence_score.den

InRange(r, lo, hi) == r.den > 0 /\ lo * r.den <= r.num /\ r.num <= hi * r.den

\* C12: the null count and the non-null count of an analyzed column add up to
\* its total count, and its null percentage lies in [0,100].
C12_NullCountsAddUp ==
    column_stats # NoStats =>
        /\ column_stats.null_count + column_stats.non_null_count
               = column_stats.total_count
        /\ InRange(column_stats.null_percentage, 0, 100)

\* C12 for columns of at least one row
C12_NullCountsAddUpNonEmpty ==
    (column_stats # NoStats /\ column_stats.total_count > 0) =>
        /\ column_stats.null_count + column_stats.non_null_count
               = column_stats.total_count
        /\ InRange(column_stats.null_percentage, 0, 100)

\* an analyzed column of zero rows: its null percentage is 0/0
C12_Witness ==
    /\ column_stats # NoStats
    /\ column_stats.total_count = 0
    /\ column_stats.null_percentage.den = 0

\* C13: for an analyzed column unique_count <= distinct_count <= total_count
\* and duplicate_count = total_count - distinct_count, the distinct count
\* being the number of different non-null values and the unique count the
\* number of non-null values that occur once.
C13_UniqueDistinctCounts ==
    column_stats # NoStats =>
        LET nonnull == {column[i] : i \in 1..Len(column)} \ {Null}
            once    == {v \in nonnull :
                          Cardinality({i \in 1..Len(column) : column[i] = v}) = 1}
        IN  /\ column_stats.unique_count <= column_stats.distinct_count
            /\ column_stats.distinct_count <= column_stats.total_count
            /\ column_stats.duplicate_count
                   = column_stats.total_count - column_stats.distinct_count
            /\ column_stats.distinct_count = Cardinality(nonnull)
            /\ column_stats.unique_count = Cardinality(once)

\* a column with a null, a repeated value and so a duplicate count above 0
C13_Witness ==
    /\ column_stats # NoStats
    /\ column_stats.null_count > 0
    /\ column_stats.unique_count < column_stats.distinct_count
    /\ column_stats.duplicate_count > 0

\* rows of the child column that hold a value
NonNullRows(child) == {i \in 1..Len(child) : child[i] # Null}

\* rows of the child column whose value no row of the parent column holds
MissingRows(child, parent) ==
    {i \in NonNullRows(child) : \A j \in 1..Len(parent) : parent[j] # child[i]}

\* result k of the checker is right: missing_count counts the non-null child
\* values absent from the parent, match_rate is 1 - missing/non-null in [0,1]
PairResultRight(k) ==
    LET r  == referential_integrity[k]
        ch == ColumnNamed(df, cfg.fk_pairs[k].child)
        pa == ColumnNamed(df, cfg.fk_pairs[k].parent)
        nn == Cardinality(NonNullRows(ch))
        ms == Cardinality(MissingRows(ch, pa))
    IN  /\ r.missing_count = ms
        /\ r.match_rate.den > 0
        /\ r.match_rate.num * nn = (nn - ms) * r.match_rate.den
        /\ 0 <= r.match_rate.num
        /\ r.match_rate.num <= r.match_rate.den

\* C14: for every evaluated (child, parent) pair missing_count is the number
\* of non-null child values absent from the parent's values and match_rate is
\* 1 - missing_count / (number of non-null child values), a value in [0,1].
C14_MissingCountAndMatchRate ==
    riState = "completed" =>
        \A k \in 1..Len(referential_integrity) :
            referential_integrity[k].status = "evaluated" => PairResultRight(k)

\* C14 for the pairs whose child column holds at least one value
C14_MatchRateOfNonEmptyChild ==
    riState = "completed" =>
        \A k \in 1..Len(referential_integrity) :
            (/\ referential_integrity[k].status = "evaluated"
             /\ NonNullRows(ColumnNamed(df, cfg.fk_pairs[k].child)) # {})
                => PairResultRight(k)

\* an evaluated pair whose child column holds rows but no value
C14_Witness ==
    /\ riState = "completed"
    /\ \E k \in 1..Len(referential_integrity) :
          /\ referential_integrity[k].status = "evaluated"
          /\ Len(ColumnNamed(df, cfg.fk_pairs[k].child)) > 0
          /\ NonNullRows(ColumnNamed(df, cfg.fk_pairs[k].child)) = {}
          /\ referential_integrity[k].match_rate.den = 0

SampledRows ==
    LET nn == {i \in 1..Len(tcol) : tcol[i] # NullCell}
    IN  {i \in nn : Cardinality({j \in nn : j < i}) < tcfg.sampling_cap}

\* at least the configured share of the sampled cells coerce to type t
MajorityCoerces(t) ==
    100 * Cardinality({i \in SampledRows : t \in CoercesTo(tcol[i])})
        >= tcfg.threshold_pct * Cardinality(SampledRows)

\* C16: the inferencer returns one type: Unknown when the column has no
\* non-null value, otherwise the first of boolean, integer, float, datetime,
\* string to which at least the threshold share of the sampled non-null
\* values coerce; string is reached by every sample.
C16_TypeInference ==
    inferred_type # NoType =>
        /\ inferred_type \in
              {"Unknown", "boolean", "integer", "float", "datetime", "string"}
        /\ inferred_type = "Unknown" <=> \A i \in 1..Len(tcol) : tcol[i] = NullCell
        /\ inferred_type # "Unknown" =>
              /\ MajorityCoerces("string")
              /\ \E k \in 1..Len(CandidateTypes) :
                    /\ inferred_type = CandidateTypes[k]
                    /\ MajorityCoerces(CandidateTypes[k])
                    /\ \A m \in 1..(k - 1) : ~MajorityCoerces(CandidateTypes[m])

\* exactly half of the sample coerces to integer at a threshold of 50%, a
\* null cell is skipped, and integer is inferred
C16_Witness ==
    /\ inferred_type = "integer"
    /\ tcfg.threshold_pct = 50
    /\ \E i \in 1..Len(tcol) : tcol[i] = NullCell
    /\ 2 * Cardinality({i \in SampledRows : "integer" \in CoercesTo(tcol[i])})
          = Cardinality(SampledRows)

\* the single-column entry of column i in the discovered keys
SingleEntryOf(i) ==
    CHOOSE k \in candidate_keys.single_column_keys : k.columns = <<df[i].name>>

\* column i has no null and as many different values as the batch has rows
Qualifies(i) ==
    /\ \A r \in 1..Len(df[i].values) : df[i].values[r] # Null
    /\ \A r, q \in 1..Len(df[i].values) :
          r # q => df[i].values[r] # df[i].values[q]

\* C17: a qualifying single column is recommended primary_key exactly when no
\* other column of the dataset qualifies, and candidate_key exactly when at
\* least one other column qualifies too.
C17_SoleQualifierIsPrimaryKey ==
    ckState = "completed" =>
        \A i \in 1..Len(df) :
            Qualifies(i) =>
                LET others == {j \in 1..Len(df) : j # i /\ Qualifies(j)}
                    rec    == SingleEntryOf(i).recommendation
                IN  /\ rec \in {"primary_key", "candidate_key"}
                    /\ rec = "primary_key" <=> others = {}
                    /\ rec = "candidate_key" <=> others # {}

\* two columns of the batch qualify and both are recommended candidate_key
C17_Witness ==
    /\ ckState = "completed"
    /\ Rows(df) > 1
    /\ \A i \in 1..Len(df) :
          Qualifies(i) /\ SingleEntryOf(i).recommendation = "candidate_key"

\* the grade the design gives a 0-100 score
GradeOfScore(score) ==
    IF score >= 90 THEN "Gold" ELSE IF score >= 70 THEN "Silver" ELSE "Bronze"

\* C18: a grade the dashboard derives from a dataset's 0-100 quality score
\* is Gold for a score of 90 or more, Silver from 70 up to 89, Bronze below.
C18_DatasetGradeFromScore ==
    entity # NoEntity =>
        /\ entity.dashboard.grade = GradeOfScore(entity.dashboard.score)
        /\ ~HasQuality(dataset) =>
              entity.revision.grade = GradeOfScore(entity.revision.score)

\* C18 for the revision of the dashboard that takes the backend's grade
C18_RevisionGradeFromScore ==
    (entity # NoEntity /\ ~HasQuality(dataset)) =>
        entity.revision.grade = GradeOfScore(entity.revision.score)

\* a dataset with a score from 85 to 89 is shown as Gold
C18_Witness ==
    /\ entity # NoEntity
    /\ entity.dashboard.score >= 85
    /\ entity.dashboard.score < 90
    /\ entity.dashboard.grade = "Gold"

\* after the signal no column and no pair is taken up, and the run goes
\* nowhere but to its cancelled end
NothingNewAfterCancel ==
    cancelled =>
        /\ \A i \in DOMAIN colState :
              colState'[i] = "running" => colState[i] = "running"
        /\ \A k \in DOMAIN pairState :
              pairState'[k] = "running" => pairState[k] = "running"
        /\ phase' # phase => phase' = "cancelled"

RunStopped ==
    /\ phase = "cancelled"
    /\ \A i \in DOMAIN colState : colState[i] # "running"
    /\ \A k \in DOMAIN pairState : pairState[k] # "running"

AdvanceIsValid ==
    (step = 1 /\ step' = 2) => (~Blank(jobName) /\ Len(uploadedFiles) >= 1)

\* C20: the wizard advances from step 1 to step 2 only if the job name is
\* non-blank and at least one file has been uploaded; otherwise it stays on
\* step 1.
C20_NextNeedsNameAndFile == [][AdvanceIsValid]_vars

ValidatedAdvanceIsValid == rev \in {16, 971} => AdvanceIsValid

\* C20 for the revisions whose handleNext validates step 1
C20_ValidatedNextNeedsNameAndFile == [][ValidatedAdvanceIsValid]_vars

\* the wizard is past step 1 with no file uploaded; files are uploaded on
\* step 1 only, so it left step 1 without one
C20_Witness ==
    /\ route = "/configure"
    /\ step = 2
    /\ Len(uploadedFiles) = 0

\* a step that takes the browser to a dashboard: the backend has just
\* created the job of a request that was awaiting its response, the job has a
\* non-blank name and at least one file, and the dashboard is that job's.
\* A step of Start Profiling that does not, leaves the wizard where it is.
StartProfilingNavigates ==
    /\ (route' = "/dashboard" /\ (route # "/dashboard" \/ jobId' # jobId)) =>
          /\ jobs' = Append(jobs, jobs'[Len(jobs')])
          /\ jobId' = Len(jobs')
          /\ \E k \in 1..Len(jobPosts) : jobPosts[k] = jobs'[jobId']
          /\ jobs'[jobId'].name \notin {"", " "}
          /\ Len(jobs'[jobId'].file_paths) >= 1
    /\ ((control' = "start_profiling" \/ jobPosts' # jobPosts)
            /\ jobs' = jobs) =>
          /\ route' = route
          /\ step' = step
          /\ jobId' = jobId

\* every POST /jobs request carries a non-blank name and at least one file
PostsAreValid ==
    \A k \in 1..Len(jobPosts) :
        /\ jobPosts[k].name \notin {"", " "}
        /\ Len(jobPosts[k].file_paths) >= 1

C22_SampleSizePositiveOrNull ==
    \A j \in 1..Len(jobs) :
        \/ jobs[j].sample_size = JsNull
        \/ jobs[j].sample_size.kind = "number" /\ jobs[j].sample_size.n > 0

\* a request sent with the sample size left empty carries null, one sent
\* with a positive whole number carries that number
SampleSizeSent ==
    Len(jobPosts') > Len(jobPosts) =>
        LET sent == jobPosts'[Len(jobPosts')].sample_size
        IN  /\ sampleSize = <<>> => sent = JsNull
            /\ sampleSize = <<"2", "5">> => sent = JsNumber(25)
            /\ sent.kind \in {"null", "number"}

\* C22 for a sample size field left empty or holding a positive whole number
C22_ValidSampleSizeIsSent == [][SampleSizeSent]_vars

\* a job was created with a sample size of zero or of a negative number
C22_Witness ==
    /\ route = "/dashboard"
    /\ jobs[jobId].sample_size.kind = "number"
    /\ jobs[jobId].sample_size.n <= 0

\* the file ids in the uploaded-files list
ListedFileIds == {uploadedFiles[i] : i \in 1..Len(uploadedFiles)}

\* C23: once the upload handler has finished, every file for which the
\* backend returned a file_id has its entry in the uploaded-files list, also
\* when a later file of the same selection failed.
C23_EveryStoredFileIsListed ==
    route = "/configure" => \A id \in 1..file_ids : id \in ListedFileIds

\* an upload whose posts all succeed lists every file of the selection, and
\* the list holds file ids of the backend only, each once
UploadListsItsFiles ==
    /\ (alertMsg' = "Successfully uploaded" /\ file_ids' > file_ids) =>
          /\ Len(uploadedFiles') = Len(uploadedFiles) + (file_ids' - file_ids)
          /\ \A id \in (file_ids + 1)..file_ids' :
                \E i \in 1..Len(uploadedFiles') : uploadedFiles'[i] = id
    /\ \A i \in 1..Len(uploadedFiles') : uploadedFiles'[i] \in 1..file_ids'
    /\ \A i, j \in 1..Len(uploadedFiles') :
          uploadedFiles'[i] = uploadedFiles'[j] => i = j

\* C23 for the selections whose files are all accepted
C23_AcceptedSelectionIsListed == [][UploadListsItsFiles]_vars

\* the first file of a selection of two was stored, the second failed, and
\* the list is empty
C23_Witness ==
    /\ route = "/configure"
    /\ file_ids = 1
    /\ uploadedFiles = <<>>
    /\ alertMsg = "Failed to upload files"

\* using Add More Files adds at least one file to the list
AddMoreFilesAdds ==
    (control' = "add_more_files" /\ control # "add_more_files") =>
        Len(uploadedFiles') > Len(uploadedFiles)

\* C24: on step 2 the Add More Files action uploads further files and adds
\* them to the uploaded-files list.
C24_AddMoreFilesGrowsList == [][AddMoreFilesAdds]_vars

\* while the wizard is and stays on step 2 the list does not change
ListFixedOnStepTwo ==
    (step = 2 /\ step' = 2) => uploadedFiles' = uploadedFiles

\* C24 as the code has it: no file is added on step 2
C24_NoUploadOnStepTwo == [][ListFixedOnStepTwo]_vars

\* Add More Files was used on step 2 and the list is as it was when the
\* wizard left step 1
C24_Witness ==
    /\ route = "/configure"
    /\ step = 2
    /\ control = "add_more_files"
    /\ Len(uploadedFiles) = 1
    /\ file_ids = 1

\* C25: for a dataset that carries dataset_quality both dashboards show the
\* backend's overall_quality_score, rounded, as the dataset's quality score,
\* whatever its value.
C25_BackendScoreShown ==
    (entity # NoEntity /\ HasQuality(dataset)) =>
        /\ entity.dashboard.score =
              MathRound(dataset.dataset_quality.overall_quality_score)
        /\ entity.revision.score =
              MathRound(dataset.dataset_quality.overall_quality_score)

\* C25 for the revision of the dashboard that reads dataset_quality, and a
\* score other than zero
C25_RevisionShowsNonZeroBackendScore ==
    (entity # NoEntity /\ HasQuality(dataset)
        /\ dataset.dataset_quality.overall_quality_score # 0) =>
        entity.revision.score =
            MathRound(dataset.dataset_quality.overall_quality_score)

\* the backend scored the dataset 87.5 and all its cells are null: one
\* dashboard shows 0, the other 88
C25_Witness ==
    /\ entity # NoEntity
    /\ HasQuality(dataset)
    /\ dataset.dataset_quality.overall_quality_score = 875
    /\ entity.dashboard.score = 0
    /\ entity.revision.score = 88

\* what the page shows of block b, its message apart
ValuesShown(b) == {i \in page.shown : i.block = b /\ i.field # NotEnabled}

\* the section of block b is on the page when its tab is active: with the
\* block's values if the dataset has the block, with the message if not
SectionRight(b) ==
    page.tab = TabOf(b) =>
        IF HasBlock(dataset, b)
        THEN /\ \A f \in FieldsOf(b) : Item(TabOf(b), b, f) \in page.shown
             /\ Item(TabOf(b), b, NotEnabled) \notin page.shown
        ELSE Item(TabOf(b), b, NotEnabled) \in page.shown

\* C26: the entity view shows values of an optional block only when the
\* dataset has the block; without it the block's section reads "rule not
\* enabled" and no grade, score or other value of the block is anywhere on
\* the page.
C26_AbsentBlockShowsNoValue ==
    page # NoPage =>
        \A b \in OptionalBlocks :
            /\ SectionRight(b)
            /\ ~HasBlock(dataset, b) => ValuesShown(b) = {}

\* C26 for the sections of the tabs, the header left aside
C26_SectionsFollowPresence ==
    page # NoPage =>
        \A b \in OptionalBlocks :
            /\ SectionRight(b)
            /\ ~HasBlock(dataset, b) =>
                  \A i \in ValuesShown(b) : i.place = "header"

\* the dataset has no dataset_quality: the overview reads "rule not enabled"
\* and the header shows a Bronze badge and a score of 0
C26_Witness ==
    /\ page # NoPage
    /\ page.tab = "overview"
    /\ ~HasQuality(dataset)
    /\ Item("overview", "dataset_quality", NotEnabled) \in page.shown
    /\ Item("header", "dataset_quality", "quality_grade") \in page.shown
    /\ page.qualityGrade = "Bronze"
    /\ page.qualityScore = 0

\* the engine's bucket of a pii_risk_score given in percent
EngineRiskLevel(risk) == RiskLevel(Ratio(risk, 100))

\* C28: the label and colour the dashboard's badge and the entity view give
\* a pii_risk_score are those of the engine's bucket of the score: Low below
\* 20%, Medium from 20% to 50%, High above.
C28_RiskLabelMatchesEngine ==
    HasQuality(dataset) =>
        LET level == EngineRiskLevel(dataset.dataset_quality.pii_risk_score)
        IN  /\ (entity # NoEntity /\ entity.pii_risk.shown) =>
                  /\ entity.pii_risk.label = level
                  /\ entity.pii_risk.colour = RiskColour(level)
            /\ page # NoPage => page.piiColour = RiskColour(level)

\* C28 for every score but 20%
C28_RiskLabelMatchesEngineOffCutoff ==
    (HasQuality(dataset) /\ dataset.dataset_quality.pii_risk_score # 20) =>
        LET level == EngineRiskLevel(dataset.dataset_quality.pii_risk_score)
        IN  /\ (entity # NoEntity /\ entity.pii_risk.shown) =>
                  /\ entity.pii_risk.label = level
                  /\ entity.pii_risk.colour = RiskColour(level)
            /\ page # NoPage => page.piiColour = RiskColour(level)

\* a score of 20%: the engine's bucket is Medium, the badge reads Low and
\* the entity view colours it as Low
C28_Witness ==
    /\ page # NoPage
    /\ HasQuality(dataset)
    /\ dataset.dataset_quality.pii_risk_score = 20
    /\ EngineRiskLevel(20) = "Medium"
    /\ entity.pii_risk.label = "Low"
    /\ page.piiColour = RiskColour("Low")

\* the step issues a periodic request
PeriodicRequestIssued ==
    StatusRequest(jobId, TRUE, TRUE) \in requests' \ requests

\* while the route stays on one job, a periodic request is issued only if
\* the last observed status is pending or running, no completed or failed
\* answer was observed and no request failed
PeriodicOnlyWhileActive ==
    (navigations = 0 /\ PeriodicRequestIssued) =>
        /\ Polls(job.status)
        /\ ~observedEnd
        /\ ~requestFailed

\* C27: the dashboard issues its periodic job-status requests only while
\* the last observed job status is pending or running; once a completed or
\* failed answer has been observed, or a request has failed, it issues no
\* further periodic request.
C27_PollsOnlyWhileActive == [][PeriodicOnlyWhileActive]_vars

PeriodicOnlyWhilePendingOrRunning ==
    (navigations = 0 /\ PeriodicRequestIssued) =>
        /\ Polls(job.status)
        /\ ~observedEnd

\* C27 without its clause on failed requests
C27_PollsOnlyWhilePendingOrRunning == [][PeriodicOnlyWhilePendingOrRunning]_vars

\* a request has failed, the job is observed as running, the interval is set
\* and a periodic request awaits its answer
C27_Witness ==
    /\ route = "/dashboard"
    /\ navigations = 0
    /\ requestFailed
    /\ job.status = "running"
    /\ effect.interval
    /\ Polls(effect.status)
    /\ StatusRequest(jobId, TRUE, TRUE) \in requests

\* the job of the route has ended at the backend
TerminalAtBackend ==
    route = "/dashboard" /\ backend[jobId] \in {"completed", "failed", "cancelled"}

\* the job of the route has completed or failed at the backend
EndedAtBackend ==
    route = "/dashboard" /\ backend[jobId] \in {"completed", "failed"}

\* the dashboard is not in its loading state, or a request has failed
LeftLoading == ~loading \/ requestFailed

\* C29: for a job that reaches completed, failed or cancelled at the backend
\* and whose requests succeed, the dashboard eventually leaves its loading
\* state.
C29_LeavesLoading == TerminalAtBackend ~> (LeftLoading \/ ~TerminalAtBackend)

\* C29 for the jobs that complete or fail
C29_LeavesLoadingWhenCompletedOrFailed ==
    EndedAtBackend ~> (LeftLoading \/ ~EndedAtBackend)

\* the job was cancelled at the backend, the dashboard has observed it, no
\* request awaits an answer or failed, and the dashboard is still loading
C29_Witness ==
    /\ route = "/dashboard"
    /\ backend[jobId] = "cancelled"
    /\ job = [job_id |-> jobId, status |-> "cancelled"]
    /\ requests = {}
    /\ ~requestFailed
    /\ loading

\* what the dashboard renders of its state: the status line of the loading
\* page, and the results page
StatusShown == route = "/dashboard" /\ loading /\ job # NoJob

ResultsShown ==
    route = "/dashboard" /\ ~loading /\ error = "none" /\ jobResults # NoResults

\* C30: the job status and the results the dashboard displays are those of
\* the job whose id is in the route, also after the route went to another
\* job.
C30_ShownBelongsToRoute ==
    /\ StatusShown => job.job_id = jobId
    /\ ResultsShown => jobResults.job_id = jobId

\* C30 as long as the route has not gone to another job
C30_ShownBelongsToFirstRoute ==
    navigations = 0 =>
        /\ StatusShown => job.job_id = jobId
        /\ ResultsShown => jobResults.job_id = jobId

\* the route went to another job and the dashboard shows the results of the
\* job before
C30_Witness ==
    /\ navigations = 1
    /\ ResultsShown
    /\ jobResults.job_id # jobId

====
